---------------------------- MODULE Spec2Model ----------------------------
(***************************************************************************)
(* The intent resolution pipeline of the customer support chatbot:         *)
(*   - CustomerSupportChatbot (chatbot_core.py): the keyword classifier    *)
(*     and its analytics recorder;                                         *)
(*   - DatasetIntegrator (dataset_integration.py): the corpus, its keyword *)
(*     lists and the surface variations;                                   *)
(*   - OpenAIChatbot (openai_chatbot.py): the generative adapter;          *)
(*   - EnhancedChatbotWithDataset (enhanced_chatbot_with_dataset.py): the  *)
(*     orchestrator, the corpus matcher and the combined analytics.        *)
(*                                                                         *)
(* A text is a sequence of one-character strings.  A confidence is an      *)
(* integer number of sixtieths: 0.95 is 57, 0.9 is 54, 0.8 is 48, 0.7 is   *)
(* 42, 0.5 is 30, 0.2 is 12, 1/3 is 20 and 1.0 is 60.                      *)
(***************************************************************************)
EXTENDS Integers, Sequences, FiniteSets, TLC

\* ------------------------------------------------------------------------
\* Bounds of the model.

\* Handler calls (of either chatbot) in one behaviour of Spec.
MaxRequests == 2

\* Calls of the orchestrator in one behaviour of SpecHistory, and the number
\* of calls after which a session of SpecHistory may change its request.
MaxSteadyRequests == 102
BurstLength == 50

\* ------------------------------------------------------------------------
\* Texts.

Min(a, b) == IF a < b THEN a ELSE b

UpperChars ==
  <<"A","B","C","D","E","F","G","H","I","J","K","L","M",
    "N","O","P","Q","R","S","T","U","V","W","X","Y","Z">>

LowerChars ==
  <<"a","b","c","d","e","f","g","h","i","j","k","l","m",
    "n","o","p","q","r","s","t","u","v","w","x","y","z">>

\* The characters str.strip() removes.
Whitespace == {" ", "\t", "\n", "\r"}

LowerChar(c) ==
  IF \E i \in 1..26 : UpperChars[i] = c
    THEN LowerChars[CHOOSE i \in 1..26 : UpperChars[i] = c]
    ELSE c

\* str.lower()
lower(s) == [i \in 1..Len(s) |-> LowerChar(s[i])]

\* str.strip()
strip(s) ==
  LET keep == {i \in 1..Len(s) : s[i] \notin Whitespace}
  IN  IF keep = {} THEN <<>>
      ELSE LET lo == CHOOSE i \in keep : \A j \in keep : i <= j
               hi == CHOOSE i \in keep : \A j \in keep : j <= i
           IN  SubSeq(s, lo, hi)

\* a in b, for two Python strings.  (x \in {a} names the value of a, so that
\* it is computed once.)
IsSubstring(a, b) ==
  \E x \in {a}, y \in {b} :
    \E i \in 0..(Len(y) - Len(x)) : SubSeq(y, i + 1, i + Len(x)) = x

\* Python's None
None == "<None>"

\* The confidence constants of the source, in sixtieths.
ConfOne == 60
ConfOpenAI == 57
ConfDirect == 54
ConfVariation == 48
ConfKeywordCap == 42
ConfKeywordStep == 12
ConfCoreStep == 20
ConfOpenAIFallback == 30

\* ------------------------------------------------------------------------
\* Static data.

\* DatasetIntegrator.intent_mapping, in the order the dict literal lists it.
intent_mapping ==
  <<[name |-> "greeting", keywords |-> <<
      <<"h","e","l","l","o">>,
      <<"h","i">>,
      <<"h","e","y">>,
      <<"g","o","o","d"," ","m","o","r","n","i","n","g">>,
      <<"g","o","o","d"," ","a","f","t","e","r","n","o","o","n">>,
      <<"g","o","o","d"," ","e","v","e","n","i","n","g">>
    >>],
    [name |-> "goodbye", keywords |-> <<
      <<"b","y","e">>,
      <<"g","o","o","d","b","y","e">>,
      <<"s","e","e"," ","y","o","u">>,
      <<"f","a","r","e","w","e","l","l">>,
      <<"t","a","k","e"," ","c","a","r","e">>
    >>],
    [name |-> "thanks", keywords |-> <<
      <<"t","h","a","n","k"," ","y","o","u">>,
      <<"t","h","a","n","k","s">>,
      <<"a","p","p","r","e","c","i","a","t","e">>,
      <<"g","r","a","t","e","f","u","l">>
    >>],
    [name |-> "order_status", keywords |-> <<
      <<"o","r","d","e","r">>,
      <<"s","t","a","t","u","s">>,
      <<"t","r","a","c","k","i","n","g">>,
      <<"s","h","i","p","p","e","d">>,
      <<"d","e","l","i","v","e","r","y">>,
      <<"w","h","e","r","e"," ","i","s"," ","m","y"," ","o","r","d","e","r">>
    >>],
    [name |-> "shipping", keywords |-> <<
      <<"s","h","i","p","p","i","n","g">>,
      <<"d","e","l","i","v","e","r","y">>,
      <<"s","h","i","p","p","i","n","g"," ","t","i","m","e">>,
      <<"h","o","w"," ","l","o","n","g">>,
      <<"w","h","e","n"," ","w","i","l","l"," ","i","t"," ","a","r","r","i","v","e">>
    >>],
    [name |-> "returns", keywords |-> <<
      <<"r","e","t","u","r","n">>,
      <<"r","e","f","u","n","d">>,
      <<"e","x","c","h","a","n","g","e">>,
      <<"c","a","n","c","e","l">>,
      <<"r","e","t","u","r","n"," ","p","o","l","i","c","y">>
    >>],
    [name |-> "payment", keywords |-> <<
      <<"p","a","y","m","e","n","t">>,
      <<"b","i","l","l","i","n","g">>,
      <<"c","h","a","r","g","e">>,
      <<"c","r","e","d","i","t"," ","c","a","r","d">>,
      <<"p","a","y","m","e","n","t"," ","m","e","t","h","o","d">>,
      <<"i","n","v","o","i","c","e">>
    >>],
    [name |-> "product_info", keywords |-> <<
      <<"p","r","o","d","u","c","t">>,
      <<"s","p","e","c","i","f","i","c","a","t","i","o","n","s">>,
      <<"f","e","a","t","u","r","e","s">>,
      <<"s","i","z","e">>,
      <<"c","o","l","o","r">>,
      <<"a","v","a","i","l","a","b","i","l","i","t","y">>
    >>],
    [name |-> "contact", keywords |-> <<
      <<"c","o","n","t","a","c","t">>,
      <<"p","h","o","n","e">>,
      <<"e","m","a","i","l">>,
      <<"s","u","p","p","o","r","t">>,
      <<"h","e","l","p">>,
      <<"s","p","e","a","k"," ","t","o"," ","s","o","m","e","o","n","e">>
    >>],
    [name |-> "complaint", keywords |-> <<
      <<"c","o","m","p","l","a","i","n","t">>,
      <<"p","r","o","b","l","e","m">>,
      <<"i","s","s","u","e">>,
      <<"u","n","h","a","p","p","y">>,
      <<"d","i","s","s","a","t","i","s","f","i","e","d">>,
      <<"a","n","g","r","y">>
    >>] >>

\* DatasetIntegrator._create_sample_dataset: the corpus, in list order.
training_data ==
  <<[input |-> <<"H","e","l","l","o">>,
     output |-> "Hi there! How can I help you today?",
     intent |-> "greeting"],
    [input |-> <<"H","i">>,
     output |-> "Hello! Welcome to our customer support. What can I assist you with?",
     intent |-> "greeting"],
    [input |-> <<"G","o","o","d"," ","m","o","r","n","i","n","g">>,
     output |-> "Good morning! How can I make your day better today?",
     intent |-> "greeting"],
    [input |-> <<"H","e","y"," ","t","h","e","r","e">>,
     output |-> "Hey! I'm here to help. What questions do you have?",
     intent |-> "greeting"],
    [input |-> <<"W","h","e","r","e"," ","i","s"," ","m","y"," ","o","r","d","e","r","?">>,
     output |-> "I can help you track your order! Please provide your order number and I'll check the status for you.",
     intent |-> "order_status"],
    [input |-> <<"O","r","d","e","r"," ","s","t","a","t","u","s">>,
     output |-> "To check your order status, please provide your order number.",
     intent |-> "order_status"],
    [input |-> <<"T","r","a","c","k"," ","m","y"," ","p","a","c","k","a","g","e">>,
     output |-> "I'd be happy to help you track your package. What's your order number?",
     intent |-> "order_status"],
    [input |-> <<"I","s"," ","m","y"," ","o","r","d","e","r"," ","s","h","i","p","p","e","d","?">>,
     output |-> "Let me check your order status. Please provide your order number.",
     intent |-> "order_status"],
    [input |-> <<"H","o","w"," ","l","o","n","g"," ","d","o","e","s"," ","s","h","i","p","p","i","n","g"," ","t","a","k","e","?">>,
     output |-> "We offer standard shipping (3-5 business days) and express shipping (1-2 business days). Which option would you like to know more about?",
     intent |-> "shipping"],
    [input |-> <<"S","h","i","p","p","i","n","g"," ","t","i","m","e">>,
     output |-> "Shipping times vary. Standard delivery is 3-5 days, express is 1-2 days.",
     intent |-> "shipping"],
    [input |-> <<"W","h","e","n"," ","w","i","l","l"," ","i","t"," ","a","r","r","i","v","e","?">>,
     output |-> "Our shipping options are standard (3-5 days) and express (1-2 days).",
     intent |-> "shipping"],
    [input |-> <<"D","e","l","i","v","e","r","y"," ","t","i","m","e">>,
     output |-> "We have two shipping options: standard (3-5 days) and express (1-2 days). Which would you prefer?",
     intent |-> "shipping"],
    [input |-> <<"I"," ","w","a","n","t"," ","t","o"," ","r","e","t","u","r","n"," ","t","h","i","s">>,
     output |-> "We offer a 30-day return policy. Items must be in original condition with packaging. Would you like me to help you start a return?",
     intent |-> "returns"],
    [input |-> <<"R","e","t","u","r","n"," ","p","o","l","i","c","y">>,
     output |-> "Returns are accepted within 30 days of purchase. Please keep your receipt and original packaging.",
     intent |-> "returns"],
    [input |-> <<"H","o","w"," ","d","o"," ","I"," ","r","e","t","u","r","n","?">>,
     output |-> "You can return items within 30 days for a full refund. Do you need assistance with the return process?",
     intent |-> "returns"],
    [input |-> <<"R","e","f","u","n","d">>,
     output |-> "Our return policy allows returns within 30 days. Items must be in original condition.",
     intent |-> "returns"],
    [input |-> <<"W","h","a","t"," ","p","a","y","m","e","n","t"," ","m","e","t","h","o","d","s"," ","d","o"," ","y","o","u"," ","a","c","c","e","p","t","?">>,
     output |-> "We accept all major credit cards, PayPal, and bank transfers. How can I help with your payment?",
     intent |-> "payment"],
    [input |-> <<"P","a","y","m","e","n","t"," ","o","p","t","i","o","n","s">>,
     output |-> "You can pay with Visa, MasterCard, American Express, PayPal, or bank transfer.",
     intent |-> "payment"],
    [input |-> <<"H","o","w"," ","c","a","n"," ","I"," ","p","a","y","?">>,
     output |-> "Multiple payment methods are available, including credit cards and PayPal.",
     intent |-> "payment"],
    [input |-> <<"B","i","l","l","i","n","g">>,
     output |-> "I can help with billing questions. What specific payment issue can I assist with?",
     intent |-> "payment"],
    [input |-> <<"T","e","l","l"," ","m","e"," ","a","b","o","u","t"," ","t","h","i","s"," ","p","r","o","d","u","c","t">>,
     output |-> "I'd be happy to help with product information. Which product are you interested in?",
     intent |-> "product_info"],
    [input |-> <<"P","r","o","d","u","c","t"," ","d","e","t","a","i","l","s">>,
     output |-> "Let me get you the details on that product. What specific information do you need?",
     intent |-> "product_info"],
    [input |-> <<"S","p","e","c","i","f","i","c","a","t","i","o","n","s">>,
     output |-> "I can provide product specifications and availability. What product are you asking about?",
     intent |-> "product_info"],
    [input |-> <<"I","s"," ","t","h","i","s"," ","i","n"," ","s","t","o","c","k","?">>,
     output |-> "Let me check the availability for you. Which product are you interested in?",
     intent |-> "product_info"],
    [input |-> <<"H","o","w"," ","c","a","n"," ","I"," ","c","o","n","t","a","c","t"," ","s","u","p","p","o","r","t","?">>,
     output |-> "You can reach our support team at support@company.com or call 1-800-SUPPORT. Our team is available 24/7!",
     intent |-> "contact"],
    [input |-> <<"P","h","o","n","e"," ","n","u","m","b","e","r">>,
     output |-> "For immediate assistance, call us at 1-800-SUPPORT or email support@company.com.",
     intent |-> "contact"],
    [input |-> <<"E","m","a","i","l"," ","s","u","p","p","o","r","t">>,
     output |-> "Our support team is available 24/7. Call 1-800-SUPPORT or email support@company.com.",
     intent |-> "contact"],
    [input |-> <<"S","p","e","a","k"," ","t","o"," ","s","o","m","e","o","n","e">>,
     output |-> "I can help you with most questions, but if you need to speak to a human agent, call 1-800-SUPPORT.",
     intent |-> "contact"],
    [input |-> <<"I"," ","h","a","v","e"," ","a"," ","c","o","m","p","l","a","i","n","t">>,
     output |-> "I'm sorry to hear you're having an issue. Please tell me more about the problem so I can help resolve it.",
     intent |-> "complaint"],
    [input |-> <<"T","h","i","s"," ","i","s"," ","t","e","r","r","i","b","l","e">>,
     output |-> "I understand your frustration. Let me help you resolve this issue. What specific problem are you experiencing?",
     intent |-> "complaint"],
    [input |-> <<"I","'","m"," ","n","o","t"," ","h","a","p","p","y">>,
     output |-> "I'm sorry you're not satisfied. Please share the details of your concern so I can assist you better.",
     intent |-> "complaint"],
    [input |-> <<"T","h","i","s"," ","i","s"," ","u","n","a","c","c","e","p","t","a","b","l","e">>,
     output |-> "I apologize for the inconvenience. Let me help you address this issue. What happened?",
     intent |-> "complaint"],
    [input |-> <<"T","h","a","n","k","s"," ","f","o","r"," ","y","o","u","r"," ","h","e","l","p">>,
     output |-> "You're welcome! Is there anything else I can help you with?",
     intent |-> "goodbye"],
    [input |-> <<"T","h","a","n","k"," ","y","o","u">>,
     output |-> "You're welcome! Feel free to reach out if you need any more assistance.",
     intent |-> "goodbye"],
    [input |-> <<"B","y","e">>,
     output |-> "Goodbye! Have a great day!",
     intent |-> "goodbye"],
    [input |-> <<"S","e","e"," ","y","o","u"," ","l","a","t","e","r">>,
     output |-> "See you later! Take care!",
     intent |-> "goodbye"] >>

\* CustomerSupportChatbot._initialize_intents: the catalog, in dict order.
intents ==
  <<[name |-> "greeting",
     keywords |-> <<
      <<"h","i">>,
      <<"h","e","l","l","o">>,
      <<"h","e","y">>,
      <<"g","o","o","d"," ","m","o","r","n","i","n","g">>,
      <<"g","o","o","d"," ","a","f","t","e","r","n","o","o","n">>,
      <<"g","o","o","d"," ","e","v","e","n","i","n","g">>
    >>,
     responses |-> <<
      "Hi! Welcome to our customer support. How can I help you today?",
      "Hello! I'm here to assist you with any questions or concerns.",
      "Hi there! Welcome to our support center. What can I help you with?",
      "Hello! How can I make your day better today?"
    >>],
    [name |-> "order_status",
     keywords |-> <<
      <<"o","r","d","e","r">>,
      <<"s","t","a","t","u","s">>,
      <<"t","r","a","c","k","i","n","g">>,
      <<"s","h","i","p","p","e","d">>,
      <<"d","e","l","i","v","e","r","y">>,
      <<"w","h","e","r","e"," ","i","s"," ","m","y"," ","o","r","d","e","r">>,
      <<"t","r","a","c","k"," ","m","y"," ","o","r","d","e","r">>
    >>,
     responses |-> <<
      "I can help you track your order! Please provide your order number and I'll check the status for you.",
      "To check your order status, I'll need your order number. What's your order number?",
      "I can look up your order status. Please share your order number with me.",
      "Let me help you track your order. Could you please provide your order number?"
    >>],
    [name |-> "shipping",
     keywords |-> <<
      <<"s","h","i","p","p","i","n","g">>,
      <<"d","e","l","i","v","e","r","y">>,
      <<"s","h","i","p","p","i","n","g"," ","t","i","m","e">>,
      <<"h","o","w"," ","l","o","n","g">>,
      <<"w","h","e","n"," ","w","i","l","l"," ","i","t"," ","a","r","r","i","v","e">>,
      <<"d","e","l","i","v","e","r","y"," ","t","i","m","e">>
    >>,
     responses |-> <<
      "We offer standard shipping (3-5 business days) and express shipping (1-2 business days). Which option would you like to know more about?",
      "Shipping times vary by location. Standard delivery is 3-5 days, express is 1-2 days.",
      "We have two shipping options: standard (3-5 days) and express (1-2 days). Which would you prefer?",
      "Standard shipping takes 3-5 business days, while express shipping takes 1-2 business days."
    >>],
    [name |-> "returns",
     keywords |-> <<
      <<"r","e","t","u","r","n">>,
      <<"r","e","f","u","n","d">>,
      <<"e","x","c","h","a","n","g","e">>,
      <<"c","a","n","c","e","l">>,
      <<"r","e","t","u","r","n"," ","p","o","l","i","c","y">>,
      <<"h","o","w"," ","t","o"," ","r","e","t","u","r","n">>
    >>,
     responses |-> <<
      "We offer a 30-day return policy. Items must be in original condition with packaging. Would you like me to help you start a return?",
      "Returns are accepted within 30 days of purchase. Please keep your receipt and original packaging.",
      "You can return items within 30 days. I can help you start the return process if you'd like.",
      "Our return policy allows returns within 30 days. Items must be in original condition."
    >>],
    [name |-> "payment",
     keywords |-> <<
      <<"p","a","y","m","e","n","t">>,
      <<"b","i","l","l","i","n","g">>,
      <<"c","h","a","r","g","e">>,
      <<"c","r","e","d","i","t"," ","c","a","r","d">>,
      <<"p","a","y","m","e","n","t"," ","m","e","t","h","o","d">>,
      <<"i","n","v","o","i","c","e">>,
      <<"b","i","l","l","i","n","g"," ","i","s","s","u","e">>
    >>,
     responses |-> <<
      "We accept all major credit cards, PayPal, and bank transfers. How can I help with your payment?",
      "You can pay with Visa, MasterCard, American Express, PayPal, or bank transfer.",
      "We accept multiple payment methods including credit cards and PayPal. What payment issue can I help with?",
      "For payment assistance, we accept credit cards, PayPal, and bank transfers."
    >>],
    [name |-> "product_info",
     keywords |-> <<
      <<"p","r","o","d","u","c","t">>,
      <<"s","p","e","c","i","f","i","c","a","t","i","o","n","s">>,
      <<"f","e","a","t","u","r","e","s">>,
      <<"s","i","z","e">>,
      <<"c","o","l","o","r">>,
      <<"a","v","a","i","l","a","b","i","l","i","t","y">>,
      <<"p","r","o","d","u","c","t"," ","d","e","t","a","i","l","s">>
    >>,
     responses |-> <<
      "I'd be happy to help with product information. Which product are you interested in?",
      "Let me get you the details on that product. What specific information do you need?",
      "I can provide product specifications and availability. What product are you asking about?",
      "I'd love to help with product details. Which product would you like to know more about?"
    >>],
    [name |-> "contact",
     keywords |-> <<
      <<"c","o","n","t","a","c","t">>,
      <<"p","h","o","n","e">>,
      <<"e","m","a","i","l">>,
      <<"s","u","p","p","o","r","t">>,
      <<"h","e","l","p">>,
      <<"s","p","e","a","k"," ","t","o"," ","s","o","m","e","o","n","e">>,
      <<"h","u","m","a","n"," ","a","g","e","n","t">>
    >>,
     responses |-> <<
      "You can reach our support team at support@company.com or call 1-800-SUPPORT. Our team is available 24/7!",
      "For immediate assistance, call us at 1-800-SUPPORT or email support@company.com.",
      "Our support team is available 24/7. Call 1-800-SUPPORT or email support@company.com.",
      "You can contact us at support@company.com or call 1-800-SUPPORT for immediate help."
    >>],
    [name |-> "account",
     keywords |-> <<
      <<"a","c","c","o","u","n","t">>,
      <<"l","o","g","i","n">>,
      <<"p","a","s","s","w","o","r","d">>,
      <<"p","r","o","f","i","l","e">>,
      <<"s","i","g","n"," ","u","p">>,
      <<"r","e","g","i","s","t","e","r">>,
      <<"a","c","c","o","u","n","t"," ","i","s","s","u","e">>
    >>,
     responses |-> <<
      "I can help with account issues. Are you having trouble logging in or creating an account?",
      "For account support, please provide your email address and I'll assist you.",
      "I can help with account-related questions. What specific issue are you experiencing?",
      "Let me help you with your account. What's the problem you're facing?"
    >>],
    [name |-> "complaint",
     keywords |-> <<
      <<"c","o","m","p","l","a","i","n","t">>,
      <<"p","r","o","b","l","e","m">>,
      <<"i","s","s","u","e">>,
      <<"d","i","s","s","a","t","i","s","f","i","e","d">>,
      <<"u","n","h","a","p","p","y">>,
      <<"b","a","d"," ","e","x","p","e","r","i","e","n","c","e">>
    >>,
     responses |-> <<
      "I'm sorry to hear about your experience. Let me help resolve this issue for you. Can you tell me more details?",
      "I apologize for any inconvenience. I'm here to help make things right. What happened?",
      "I'm sorry you're having a problem. Let me assist you in resolving this issue.",
      "I understand your concern. Let me help you with this issue right away."
    >>],
    [name |-> "goodbye",
     keywords |-> <<
      <<"b","y","e">>,
      <<"g","o","o","d","b","y","e">>,
      <<"t","h","a","n","k","s">>,
      <<"t","h","a","n","k"," ","y","o","u">>,
      <<"s","e","e"," ","y","o","u">>,
      <<"f","a","r","e","w","e","l","l">>
    >>,
     responses |-> <<
      "You're welcome! Have a great day!",
      "Thank you for contacting us! Feel free to reach out anytime.",
      "Happy to help! Take care!",
      "You're welcome! Don't hesitate to contact us if you need anything else."
    >>] >>

\* ------------------------------------------------------------------------
\* DatasetIntegrator

\* DatasetIntegrator.generate_variations
generate_variations(base_input, intent) ==
  <<base_input>> \o
  (IF intent = "greeting" THEN
     << base_input \o <<" ","t","h","e","r","e">>,
        base_input \o <<"!">>,
        <<"H","e","y"," ">> \o lower(base_input),
        <<"G","o","o","d"," ","m","o","r","n","i","n","g"," ">> \o lower(base_input) >>
   ELSE IF intent = "order_status" THEN
     << <<"W","h","e","r","e"," ","i","s"," ">> \o base_input,
        <<"S","t","a","t","u","s"," ","o","f"," ">> \o base_input,
        <<"T","r","a","c","k"," ">> \o base_input,
        <<"C","h","e","c","k"," ">> \o base_input >>
   ELSE IF intent = "shipping" THEN
     << <<"H","o","w"," ","l","o","n","g"," ","f","o","r"," ">> \o base_input,
        <<"W","h","e","n"," ","w","i","l","l"," ">> \o base_input \o <<" ","a","r","r","i","v","e">>,
        <<"D","e","l","i","v","e","r","y"," ","t","i","m","e"," ","f","o","r"," ">> \o base_input,
        <<"S","h","i","p","p","i","n","g"," ","d","u","r","a","t","i","o","n"," ","f","o","r"," ">> \o base_input >>
   ELSE << >>)

\* The keywords of the intent taken from the catalog of the keyword
\* classifier (self.core_chatbot.intents) instead.
MappingKeywordsFromCatalog(intent) ==
  IF \E i \in 1..Len(intents) : intents[i].name = intent
    THEN intents[CHOOSE i \in 1..Len(intents) : intents[i].name = intent].keywords
    ELSE << >>

\* self.dataset_integrator.intent_mapping.get(intent, [])
MappingKeywords(intent) ==
  IF \E i \in 1..Len(intent_mapping) : intent_mapping[i].name = intent
    THEN intent_mapping[CHOOSE i \in 1..Len(intent_mapping) :
                          intent_mapping[i].name = intent].keywords
    ELSE << >>

\* ------------------------------------------------------------------------
\* EnhancedChatbotWithDataset: the corpus matcher

\* The keys of enhanced_responses in insertion order: the intents of the
\* corpus in order of first appearance.
EnhancedIntents ==
  LET first == {i \in 1..Len(training_data) :
                  \A j \in 1..(i - 1) : training_data[j].intent # training_data[i].intent}
      F[n \in 0..Len(training_data)] ==
        IF n = 0 THEN << >>
        ELSE IF n \in first THEN Append(F[n - 1], training_data[n].intent)
        ELSE F[n - 1]
  IN  F[Len(training_data)]

\* EnhancedChatbotWithDataset._load_enhanced_responses: per intent, its
\* examples in corpus order, each with its variations.
enhanced_responses ==
  [k \in 1..Len(EnhancedIntents) |->
     [intent   |-> EnhancedIntents[k],
      examples |->
        LET idx == {i \in 1..Len(training_data) :
                      training_data[i].intent = EnhancedIntents[k]}
            G[n \in 0..Len(training_data)] ==
              IF n = 0 THEN << >>
              ELSE IF n \in idx
                THEN Append(G[n - 1],
                       [input      |-> training_data[n].input,
                        output     |-> training_data[n].output,
                        variations |-> generate_variations(training_data[n].input,
                                                           training_data[n].intent)])
              ELSE G[n - 1]
        IN  G[Len(training_data)]]]

\* The replacement step with >= for >: the last of equals wins.
BetterOrEqual(best, intent, confidence, response) ==
  IF confidence >= best.confidence
    THEN [intent |-> intent, confidence |-> confidence, response |-> response]
    ELSE best

\* The replacement step of the scoring loops: strictly greater wins.
Better(best, intent, confidence, response) ==
  IF confidence > best.confidence
    THEN [intent |-> intent, confidence |-> confidence, response |-> response]
    ELSE best

\* sum(1 for keyword in keywords if keyword in user_input)
KeywordMatches(keywords, user_input) ==
  Cardinality({i \in 1..Len(keywords) : IsSubstring(keywords[i], user_input)})

\* The body of the loop over one example with the keyword score not capped
\* (keyword_matches * 0.2 for min(0.7, keyword_matches * 0.2)).
ExampleStepUncapped(best, intent, example, user_input) ==
  LET direct(b0) == IF IsSubstring(user_input, lower(example.input))
                      THEN Better(b0, intent, ConfDirect, example.output)
                      ELSE b0
      varied(b1) == IF \E n \in 1..Len(example.variations) :
                          IsSubstring(user_input, lower(example.variations[n]))
                      THEN Better(b1, intent, ConfVariation, example.output)
                      ELSE b1
      keyed(b2, keyword_matches) ==
        IF keyword_matches > 0
          THEN Better(b2, intent, keyword_matches * ConfKeywordStep, example.output)
          ELSE b2
  IN  CHOOSE b3 \in {keyed(b2, m) :
                       b2 \in {varied(b1) : b1 \in {direct(b0) : b0 \in {best}}},
                       m \in {KeywordMatches(MappingKeywords(intent), user_input)}} : TRUE

\* The body of the loop with the direct match turned round: the example's
\* text looked for in the input (example['input'].lower() in user_input).
ExampleStepExampleInInput(best, intent, example, user_input) ==
  LET direct(b0) == IF IsSubstring(lower(example.input), user_input)
                      THEN Better(b0, intent, ConfDirect, example.output)
                      ELSE b0
      varied(b1) == IF \E n \in 1..Len(example.variations) :
                          IsSubstring(user_input, lower(example.variations[n]))
                      THEN Better(b1, intent, ConfVariation, example.output)
                      ELSE b1
      keyed(b2, keyword_matches) ==
        IF keyword_matches > 0
          THEN Better(b2, intent,
                      Min(ConfKeywordCap, keyword_matches * ConfKeywordStep),
                      example.output)
          ELSE b2
  IN  CHOOSE b3 \in {keyed(b2, m) :
                       b2 \in {varied(b1) : b1 \in {direct(b0) : b0 \in {best}}},
                       m \in {KeywordMatches(MappingKeywords(intent), user_input)}} : TRUE

\* The body of the loop over one example (lines 138-164): the direct match,
\* the variations and the keywords, each replacing the best on a strictly
\* greater confidence.  Every variation proposes the same candidate, so the
\* loop over them replaces the best at its first hit and at no later one.
ExampleStep(best, intent, example, user_input) ==
  LET direct(b0) == IF IsSubstring(user_input, lower(example.input))
                      THEN Better(b0, intent, ConfDirect, example.output)
                      ELSE b0
      varied(b1) == IF \E n \in 1..Len(example.variations) :
                          IsSubstring(user_input, lower(example.variations[n]))
                      THEN Better(b1, intent, ConfVariation, example.output)
                      ELSE b1
      keyed(b2, keyword_matches) ==
        IF keyword_matches > 0
          THEN Better(b2, intent,
                      Min(ConfKeywordCap, keyword_matches * ConfKeywordStep),
                      example.output)
          ELSE b2
  IN  CHOOSE b3 \in {keyed(b2, m) :
                       b2 \in {varied(b1) : b1 \in {direct(b0) : b0 \in {best}}},
                       m \in {KeywordMatches(MappingKeywords(intent), user_input)}} : TRUE

\* The loop over the examples of one intent (line 137), from example n on.
\* (b \in {...} names the best after example n, so that it is computed once.)
RECURSIVE ExampleLoop(_, _, _, _, _)
ExampleLoop(best, intent, examples, n, user_input) ==
  IF n > Len(examples) THEN best
  ELSE CHOOSE r \in {ExampleLoop(b, intent, examples, n + 1, user_input) :
                       b \in {ExampleStep(best, intent, examples[n], user_input)}} : TRUE

\* The loop over the intents of enhanced_responses (line 136), from intent k on.
RECURSIVE IntentLoop(_, _, _)
IntentLoop(best, k, user_input) ==
  IF k > Len(enhanced_responses) THEN best
  ELSE CHOOSE r \in {IntentLoop(b, k + 1, user_input) :
                       b \in {ExampleLoop(best, enhanced_responses[k].intent,
                                          enhanced_responses[k].examples, 1,
                                          user_input)}} : TRUE

\* EnhancedChatbotWithDataset._find_best_intent_match: the returned tuple
\* (best_intent, best_confidence, best_response).
_find_best_intent_match(user_input) ==
  LET best == IntentLoop([intent |-> None, confidence |-> 0, response |-> ""],
                         1, user_input)
  IN  CHOOSE t \in {<<b.intent, b.confidence, b.response>> : b \in {best}} : TRUE

\* ------------------------------------------------------------------------
\* CustomerSupportChatbot: the keyword classifier

\* The loop over the catalog with >= for >: the last of equals wins.
RECURSIVE ScoreLoopLastWins(_, _, _)
ScoreLoopLastWins(best, k, user_input_lower) ==
  IF k > Len(intents) THEN best
  ELSE CHOOSE r \in
         {ScoreLoopLastWins(IF score >= best.best_match_score
                              THEN [best_match_score |-> score, best_intent |-> intents[k].name]
                              ELSE best,
                            k + 1, user_input_lower) :
            score \in {KeywordMatches(intents[k].keywords, user_input_lower)}} : TRUE

\* The loop over the catalog (lines 172-180), from intent k on.
RECURSIVE ScoreLoop(_, _, _)
ScoreLoop(best, k, user_input_lower) ==
  IF k > Len(intents) THEN best
  ELSE CHOOSE r \in
         {ScoreLoop(IF score > best.best_match_score
                      THEN [best_match_score |-> score, best_intent |-> intents[k].name]
                      ELSE best,
                    k + 1, user_input_lower) :
            score \in {KeywordMatches(intents[k].keywords, user_input_lower)}} : TRUE

\* _find_best_intent without min(..., 1.0).
FindBestIntentUncapped(user_input) ==
  CHOOSE t \in
    {<< best.best_intent, best.best_match_score * ConfCoreStep >> :
       best \in {ScoreLoop([best_match_score |-> 0, best_intent |-> "fallback"],
                           1, lower(user_input))}} : TRUE

\* CustomerSupportChatbot._find_best_intent: <<best_intent, confidence>>.
_find_best_intent(user_input) ==
  CHOOSE t \in
    {<< best.best_intent,
        IF best.best_match_score > 0
          THEN Min(best.best_match_score * ConfCoreStep, ConfOne)
          ELSE 0 >> :
       best \in {ScoreLoop([best_match_score |-> 0, best_intent |-> "fallback"],
                           1, lower(user_input))}} : TRUE

\* CustomerSupportChatbot._get_fallback_response: the pool random.choice
\* draws from.
fallback_responses ==
  << "I'm sorry, I didn't quite understand that. Could you please rephrase your question?",
     "I'm not sure I can help with that specific question. Could you try asking in a different way?",
     "I don't have information about that. Let me connect you with a human agent who can help better.",
     "That's an interesting question! I might not have the exact answer, but I can connect you with our support team.",
     "I'm still learning! Could you try asking about order status, shipping, returns, or product information?" >>

\* CustomerSupportChatbot._generate_response: the list random.choice draws
\* from for an intent.
ResponsePool(intent) ==
  IF \E k \in 1..Len(intents) : intents[k].name = intent
    THEN intents[CHOOSE k \in 1..Len(intents) : intents[k].name = intent].responses
    ELSE fallback_responses

\* ------------------------------------------------------------------------
\* The texts of the model and the classifiers' results on them.

\* The message texts the transports send.
TextEmpty  == << >>
TextSpace  == <<" ">>
TextSpaces == <<" "," ">>
TextHello  == <<"H","e","l","l","o">>
TextXyz    == <<"x","y","z">>
TextOrder  == <<"W","h","e","r","e"," ","i","s"," ","m","y"," ","o","r","d","e","r"," ","#","1","2","3","4","5","?">>

TextTrack  == <<"O","r","d","e","r"," ","s","t","a","t","u","s"," ","t","r","a","c","k","i","n","g"," ","d","e","l","i","v","e","r","y">>

Texts == {TextEmpty, TextSpace, TextSpaces, TextHello, TextXyz, TextOrder, TextTrack}

\* The input texts of the corpus (DatasetIntegrator._create_sample_dataset).
CorpusTexts == {training_data[i].input : i \in 1..Len(training_data)}

\* self._find_best_intent_match(user_input_lower) of line 117, for the texts of
\* the model: the matcher's results, computed once.
MatchTable ==
  {<<u, _find_best_intent_match(u)>> : u \in {lower(t) : t \in Texts \cup CorpusTexts}}

BestMatch(user_input_lower) ==
  (CHOOSE p \in MatchTable : p[1] = user_input_lower)[2]

\* self._find_best_intent(user_input) of chatbot_core.py line 148, likewise.
IntentTable == {<<t, _find_best_intent(t)>> : t \in Texts}

BestIntent(user_input) == (CHOOSE p \in IntentTable : p[1] = user_input)[2]

\* CustomerSupportChatbot._create_response
_create_response(text, intent, confidence, response_time, now) ==
  [text |-> text, intent |-> intent, confidence |-> confidence,
   response_time |-> response_time, timestamp |-> now]

\* A bytes object passed where the signature says str: b"hello".  The
\* first element marks the type; the others are its characters.
BytesHello == <<"bytes","h","e","l","l","o">>

\* isinstance(user_input, bytes)
IsBytes(user_input) == Len(user_input) > 0 /\ user_input[1] = "bytes"

\* `keyword in user_input_lower` of _find_best_intent (line 176) raises
\* TypeError when user_input_lower is a bytes object: the only statement of
\* the try block that raises for an argument that passed line 141.
ClassifierRaises(user_input) == IsBytes(user_input)

\* `user_input in example['input'].lower()` of _find_best_intent_match
\* (line 139) raises TypeError when user_input is a bytes object.
MatcherRaises(user_input) == IsBytes(user_input)

\* dict.get(key, 0) + 1 stored back under key
DictIncrement(d, key) ==
  [k \in DOMAIN d \cup {key} |-> IF k = key
                                   THEN (IF key \in DOMAIN d THEN d[key] ELSE 0) + 1
                                   ELSE d[k]]

EmptyDict == [k \in {} |-> 0]

\* _record_interaction keeping only the last 10 entries of the history.
RecordInteractionKeepingTen(bot, user_input, intent, response_text, confidence, response_time, session_id, now) ==
  [conversation_history |->
     LET appended == Append(bot.conversation_history,
                       [timestamp     |-> now,
                        session_id    |-> IF session_id = None THEN "default" ELSE session_id,
                        user_input    |-> user_input,
                        intent        |-> intent,
                        response      |-> response_text,
                        confidence    |-> confidence,
                        response_time |-> response_time])
     IN  IF Len(appended) > 10 THEN SubSeq(appended, Len(appended) - 9, Len(appended))
                               ELSE appended,
   analytics |->
     [total_requests       |-> bot.analytics.total_requests + 1,
      successful_responses |-> bot.analytics.successful_responses + 1,
      failed_responses     |-> bot.analytics.failed_responses,
      intent_counts        |-> DictIncrement(bot.analytics.intent_counts, intent),
      response_times       |-> Append(bot.analytics.response_times, response_time)]]

\* CustomerSupportChatbot._record_interaction: the chatbot after recording.
_record_interaction(bot, user_input, intent, response_text, confidence, response_time, session_id, now) ==
  [conversation_history |->
     Append(bot.conversation_history,
            [timestamp     |-> now,
             session_id    |-> IF session_id = None THEN "default" ELSE session_id,
             user_input    |-> user_input,
             intent        |-> intent,
             response      |-> response_text,
             confidence    |-> confidence,
             response_time |-> response_time]),
   analytics |->
     [total_requests       |-> bot.analytics.total_requests + 1,
      successful_responses |-> bot.analytics.successful_responses + 1,
      failed_responses     |-> bot.analytics.failed_responses,
      intent_counts        |-> DictIncrement(bot.analytics.intent_counts, intent),
      response_times       |-> Append(bot.analytics.response_times, response_time)]]

\* The except branch counting the request as well (total_requests += 1).
ExceptBranchCountingRequest(bot, now) ==
  [bot    |-> [bot EXCEPT !.analytics.failed_responses = @ + 1,
                          !.analytics.total_requests = @ + 1],
   result |-> _create_response("I'm sorry, I encountered an error. Please try again.",
                               "error", 0, 0, now)]

\* The except branch of process_message (lines 161-164): the chatbot
\* afterwards and the returned dict.
ExceptBranch(bot, now) ==
  [bot    |-> [bot EXCEPT !.analytics.failed_responses = @ + 1],
   result |-> _create_response("I'm sorry, I encountered an error. Please try again.",
                               "error", 0, 0, now)]

\* process_message without its test of user_input.strip() (lines 141-142).
CoreProcessMessageUnguarded(bot, user_input, session_id, choice, response_time, now) ==
  LET found         == BestIntent(user_input)
      intent        == found[1]
      confidence    == found[2]
      response_text == ResponsePool(intent)[choice]
  IN  [bot    |-> _record_interaction(bot, user_input, intent, response_text,
                                      confidence, response_time, session_id, now),
       result |-> _create_response(response_text, intent, confidence,
                                   response_time, now)]

\* CustomerSupportChatbot.process_message on chatbot `bot`: the chatbot
\* afterwards and the returned dict.  `choice` is random.choice's draw and
\* `response_time` the measured latency.  An exception raised in the try
\* block (lines 146-159) ends in the except branch.
CoreProcessMessage(bot, user_input, session_id, choice, response_time, now) ==
  IF strip(user_input) = << >>
    THEN [bot    |-> bot,
          result |-> _create_response("Please enter a message so I can help you!",
                                      "empty_input", 0, 0, now)]
  ELSE IF ClassifierRaises(user_input)
    THEN ExceptBranch(bot, now)
    ELSE LET found         == BestIntent(user_input)
             intent        == found[1]
             confidence    == found[2]
             response_text == ResponsePool(intent)[choice]
         IN  [bot    |-> _record_interaction(bot, user_input, intent, response_text,
                                             confidence, response_time, session_id, now),
              result |-> _create_response(response_text, intent, confidence,
                                          response_time, now)]

\* CustomerSupportChatbot.__init__: the freshly constructed chatbot.
CoreInit ==
  [conversation_history |-> << >>,
   analytics |-> [total_requests |-> 0, successful_responses |-> 0,
                  failed_responses |-> 0, intent_counts |-> EmptyDict,
                  response_times |-> << >>]]

\* ------------------------------------------------------------------------
\* OpenAIChatbot: the generative adapter

\* OpenAIChatbot._get_fallback_response: the pool random.choice draws from.
openai_fallback_responses ==
  << "I'm here to help! I can assist with order status, shipping, returns, payment, and product information.",
     "I'd be happy to help you with your inquiry. What specific information do you need?",
     "I can help with various customer support topics. How can I assist you today?",
     "I'm ready to help! Please let me know what you need assistance with." >>

\* _get_fallback_response giving its confidence in percent (50).
FallbackResponseInPercent(choice) ==
  [text |-> openai_fallback_responses[choice], intent |-> "fallback",
   confidence |-> 50 * ConfOne, response_time |-> 0, model |-> "fallback"]

\* OpenAIChatbot._get_fallback_response
_get_fallback_response(choice) ==
  [text |-> openai_fallback_responses[choice], intent |-> "fallback",
   confidence |-> ConfOpenAIFallback, response_time |-> 0, model |-> "fallback"]

\* The last n elements of a list: list[-n:]
LastN(list, n) ==
  IF Len(list) <= n THEN list ELSE SubSeq(list, Len(list) - n + 1, Len(list))

\* OpenAIChatbot._get_system_prompt
SystemPrompt ==
  "You are a helpful customer support assistant for an e-commerce company. \n        You can help with:\n        - Order status and tracking\n        - Shipping and delivery information\n        - Returns and refunds\n        - Payment methods and billing\n        - Product information\n        - Account issues\n        - General customer support\n        \n        Be friendly, helpful, and professional. If you don't know something specific, \n        offer to connect the customer with a human agent. Keep responses concise but informative."

\* f"Context: {context}\nUser: {user_message}" of line 46
UserContent(context, user_message) ==
  <<"C","o","n","t","e","x","t",":"," ">> \o context
    \o <<"\n","U","s","e","r",":"," ">> \o user_message

\* Keep last 6 exchanges (line 50).
ContextLimit == 6

\* Lines 50-52: the two messages of each entry, in the order of the entries.
RECURSIVE HistoryMessages(_)
HistoryMessages(entries) ==
  IF entries = << >> THEN << >>
  ELSE << [role |-> "user", content |-> Head(entries).user],
          [role |-> "assistant", content |-> Head(entries).assistant] >>
         \o HistoryMessages(Tail(entries))

\* The messages built from the whole history (no [-6:]).
MessagesOfWholeHistory(oa, user_message, context) ==
  << [role |-> "system", content |-> SystemPrompt],
     [role |-> "user", content |-> UserContent(context, user_message)] >>
    \o HistoryMessages(oa.conversation_history)

\* Lines 43-52: the `messages` list sent with the completion request.
Messages(oa, user_message, context) ==
  << [role |-> "system", content |-> SystemPrompt],
     [role |-> "user", content |-> UserContent(context, user_message)] >>
    \o HistoryMessages(LastN(oa.conversation_history, ContextLimit))

\* get_openai_response storing the exchange of a failed call as well.
GetOpenAIResponseStoringFailures(oa, user_message, api, choice, now) ==
  IF ~oa.client
    THEN [oa |-> oa, messages |-> << >>, response |-> _get_fallback_response(choice)]
    ELSE LET bot_response == IF api.ok THEN strip(api.content) ELSE << >>
         IN  [oa |-> [oa EXCEPT !.conversation_history =
                        Append(@, [user |-> user_message,
                                   assistant |-> bot_response,
                                   timestamp |-> now])],
              messages |-> Messages(oa, user_message, << >>),
              response |-> IF api.ok
                             THEN [text |-> bot_response, intent |-> "openai_response",
                                   confidence |-> ConfOpenAI, response_time |-> 0,
                                   model |-> "gpt-3.5-turbo"]
                             ELSE _get_fallback_response(choice)]

\* OpenAIChatbot.get_openai_response on adapter `oa`, with the default
\* context "".  `api` is what the remote call does: [ok |-> TRUE,
\* content |-> c] when it answers with content c, [ok |-> FALSE] when it (or
\* reading its answer) raises.  Gives the adapter afterwards, the messages
\* sent (none without a client) and the returned dict.
get_openai_response(oa, user_message, api, choice, now) ==
  IF ~oa.client
    THEN [oa |-> oa, messages |-> << >>, response |-> _get_fallback_response(choice)]
  ELSE IF api.ok
    THEN LET bot_response == strip(api.content)
         IN  [oa |-> [oa EXCEPT !.conversation_history =
                        Append(@, [user |-> user_message,
                                   assistant |-> bot_response,
                                   timestamp |-> now])],
              messages |-> Messages(oa, user_message, << >>),
              response |-> [text |-> bot_response, intent |-> "openai_response",
                            confidence |-> ConfOpenAI, response_time |-> 0,
                            model |-> "gpt-3.5-turbo"]]
    ELSE [oa |-> oa, messages |-> Messages(oa, user_message, << >>),
          response |-> _get_fallback_response(choice)]

\* ------------------------------------------------------------------------
\* EnhancedChatbotWithDataset: the orchestrator

\* Keep only last 100 conversations (line 180).
HistoryLimit == 100

\* _add_to_history keeping the first 100 conversations ([:100]).
AddToHistoryKeepingFirst(history, user_input, bot_response, source, confidence, user_id, now) ==
  LET appended == Append(history,
                    [timestamp    |-> now,
                     user_id      |-> user_id,
                     user_input   |-> user_input,
                     bot_response |-> bot_response,
                     source       |-> source,
                     confidence   |-> confidence])
  IN  IF Len(appended) > HistoryLimit THEN SubSeq(appended, 1, HistoryLimit) ELSE appended

\* EnhancedChatbotWithDataset._add_to_history: the history afterwards.
_add_to_history(history, user_input, bot_response, source, confidence, user_id, now) ==
  LET appended == Append(history,
                    [timestamp    |-> now,
                     user_id      |-> user_id,
                     user_input   |-> user_input,
                     bot_response |-> bot_response,
                     source       |-> source,
                     confidence   |-> confidence])
  IN  IF Len(appended) > HistoryLimit THEN LastN(appended, HistoryLimit) ELSE appended

\* bool(best_match) of line 119: a tuple is true unless it is empty.
Truthy(tuple) == Len(tuple) > 0

\* EnhancedChatbotWithDataset._process_with_enhanced_dataset on the core
\* chatbot `bot`: the core chatbot afterwards, the returned dict and
\* whether the keyword classifier was consulted.
_process_with_enhanced_dataset(bot, user_input, best_match, choice, response_time, now) ==
  IF Truthy(best_match)
    THEN [bot        |-> bot,
          classified |-> FALSE,
          response   |-> [text |-> best_match[3], intent |-> best_match[1],
                          confidence |-> best_match[2]]]
    ELSE LET core == CoreProcessMessage(bot, user_input, None, choice, response_time, now)
         IN  [bot        |-> core.bot,
              classified |-> strip(user_input) # << >>,
              response   |-> core.result]

\* Line 68 without its test of use_openai.
UsesOpenAIIgnoringFlag(self, use_openai) == self.openai_chatbot.client

\* The condition of line 68: try the generative adapter first.
UsesOpenAI(self, use_openai) == use_openai /\ self.openai_chatbot.client

\* Lines 71-78 counting the request as a core request.
RecordOpenAIAsCore(counted, user_input, response, user_id, response_time, now) ==
  [counted EXCEPT
     !.core_requests = @ + 1,
     !.conversation_history =
        _add_to_history(@, user_input, response.text, "openai",
                        response.confidence, user_id, now),
     !.response_times = Append(@, response_time)]

\* Lines 71-78: the analytics after a request the generative adapter served.
RecordOpenAI(counted, user_input, response, user_id, response_time, now) ==
  [counted EXCEPT
     !.openai_requests = @ + 1,
     !.conversation_history =
        _add_to_history(@, user_input, response.text, "openai",
                        response.confidence, user_id, now),
     !.response_times = Append(@, response_time)]

\* Lines 94-101 without the increment of core_requests.
RecordCoreUncounted(counted, user_input, response, user_id, response_time, now) ==
  [counted EXCEPT
     !.conversation_history =
        _add_to_history(@, user_input, response.text, "core",
                        response.confidence, user_id, now),
     !.response_times = Append(@, response_time)]

\* Lines 94-101: the analytics after a request served locally.
RecordCore(counted, user_input, response, user_id, response_time, now) ==
  [counted EXCEPT
     !.core_requests = @ + 1,
     !.conversation_history =
        _add_to_history(@, user_input, response.text, "core",
                        response.confidence, user_id, now),
     !.response_times = Append(@, response_time)]

\* EnhancedChatbotWithDataset.process_message on the orchestrator state
\* [analytics, openai_chatbot, core_chatbot]: the state afterwards, the
\* returned dict and which stages the call went through.  get_openai_response
\* raises nothing (it catches every exception itself), so the except branch
\* of lines 89-90 is never entered.  Lines 92-110 are in no try block: when
\* the matcher raises, the exception leaves process_message (raised) after
\* line 65 counted the request, and no dict is returned.
ProcessMessage(self, user_input, user_id, use_openai, api, choice, response_time, now) ==
  LET counted == [self.analytics EXCEPT !.total_requests = @ + 1]
  IN  IF UsesOpenAI(self, use_openai)
        THEN LET gen == get_openai_response(self.openai_chatbot, user_input, api, choice, now)
                 response == gen.response
             IN  [analytics      |-> RecordOpenAI(counted, user_input, response, user_id,
                                                  response_time, now),
                  openai_chatbot |-> gen.oa,
                  core_chatbot   |-> self.core_chatbot,
                  api_called     |-> TRUE,
                  matched        |-> FALSE,
                  classified     |-> FALSE,
                  raised         |-> FALSE,
                  result |-> [text |-> response.text, intent |-> response.intent,
                              confidence |-> response.confidence,
                              response_time |-> response_time,
                              source |-> "openai", model |-> response.model]]
      ELSE IF MatcherRaises(user_input)
        THEN [analytics      |-> counted,
              openai_chatbot |-> self.openai_chatbot,
              core_chatbot   |-> self.core_chatbot,
              api_called     |-> FALSE,
              matched        |-> TRUE,
              classified     |-> FALSE,
              raised         |-> TRUE,
              result         |-> None]
        ELSE LET best_match == BestMatch(lower(user_input))
                 local == _process_with_enhanced_dataset(self.core_chatbot, user_input,
                                                         best_match, choice, response_time, now)
                 response == local.response
             IN  [analytics      |-> RecordCore(counted, user_input, response, user_id,
                                                response_time, now),
                  openai_chatbot |-> self.openai_chatbot,
                  core_chatbot   |-> local.bot,
                  api_called     |-> FALSE,
                  matched        |-> TRUE,
                  classified     |-> local.classified,
                  raised         |-> FALSE,
                  result |-> [text |-> response.text, intent |-> response.intent,
                              confidence |-> response.confidence,
                              response_time |-> response_time,
                              source |-> "core_enhanced", model |-> "dataset_trained"]]

\* ------------------------------------------------------------------------
\* The state machine.

VARIABLES
  analytics,       \* EnhancedChatbotWithDataset.analytics
  openai_chatbot,  \* the orchestrator's OpenAIChatbot: client, conversation_history
  core_chatbot,    \* the CustomerSupportChatbot: conversation_history, analytics
  clock,           \* datetime.now(): one tick per handler call
  last             \* the last handler call: its arguments, what the remote call
                   \* did (api), the stages it went through and its result

vars == <<analytics, openai_chatbot, core_chatbot, clock, last>>

\* user_id of the orchestrator (its callers pass none) and session_id of
\* the keyword chatbot (the Telegram transport passes the user's id).
UserIds == {None}
SessionIds == {None, "7"}

\* Measured latencies, in seconds.
ResponseTimes == {1}

\* What the remote completion call can do: answer with a content, or raise.
GeneratedContents == { <<"O","K",".","\n">>, <<" ">> }
ApiOutcomes ==
  {[ok |-> TRUE, content |-> c] : c \in GeneratedContents}
    \cup {[ok |-> FALSE, content |-> << >>]}

\* EnhancedChatbotWithDataset.__init__ (with OpenAIChatbot.__init__ and
\* CustomerSupportChatbot.__init__): the client exists when the key is set
\* and the client library accepts it.
Init ==
  /\ analytics = [total_requests |-> 0, openai_requests |-> 0, core_requests |-> 0,
                  intent_distribution |-> EmptyDict, response_times |-> << >>,
                  user_satisfaction |-> << >>, conversation_history |-> << >>]
  /\ openai_chatbot \in {[client |-> c, conversation_history |-> << >>] : c \in BOOLEAN}
  /\ core_chatbot = CoreInit
  /\ clock = 0
  /\ last = [handler |-> "none"]

\* The draws of random.choice a call of the orchestrator can make.
Choices(user_input, use_openai, api) ==
  IF use_openai /\ openai_chatbot.client
    THEN IF api.ok THEN {1} ELSE 1..Len(openai_fallback_responses)
  ELSE IF MatcherRaises(user_input)
    THEN {1}
  ELSE IF Truthy(BestMatch(lower(user_input)))
    THEN {1}
    ELSE 1..Len(ResponsePool(BestIntent(user_input)[1]))

\* One call of EnhancedChatbotWithDataset.process_message.
Resolve(user_input, user_id, use_openai, api, choice, response_time) ==
  \E done \in {ProcessMessage([analytics |-> analytics,
                                openai_chatbot |-> openai_chatbot,
                                core_chatbot |-> core_chatbot],
                               user_input, user_id, use_openai, api, choice,
                               response_time, clock + 1)} :
      /\ analytics' = done.analytics
      /\ openai_chatbot' = done.openai_chatbot
      /\ core_chatbot' = done.core_chatbot
      /\ clock' = clock + 1
      /\ last' = [handler |-> "enhanced", user_input |-> user_input,
                  use_openai |-> use_openai, api_called |-> done.api_called,
                  api |-> api, matched |-> done.matched,
                  classified |-> done.classified, raised |-> done.raised,
                  result |-> done.result]

\* A transport calls the orchestrator.
process_message ==
  /\ clock < MaxRequests
  /\ \E user_input \in Texts, user_id \in UserIds, use_openai \in BOOLEAN :
       \E api \in (IF use_openai /\ openai_chatbot.client
                     THEN ApiOutcomes ELSE {[ok |-> FALSE, content |-> << >>]}) :
         \E choice \in Choices(user_input, use_openai, api), response_time \in ResponseTimes :
           Resolve(user_input, user_id, use_openai, api, choice, response_time)

\* A transport calls the keyword chatbot directly.
core_process_message ==
  /\ clock < MaxRequests
  /\ \E user_input \in Texts, session_id \in SessionIds, response_time \in ResponseTimes :
       \E choice \in (IF strip(user_input) = << >> THEN {1}
                      ELSE 1..Len(ResponsePool(BestIntent(user_input)[1]))) :
         \E done \in {CoreProcessMessage(core_chatbot, user_input, session_id, choice,
                                         response_time, clock + 1)} :
             /\ core_chatbot' = done.bot
             /\ clock' = clock + 1
             /\ last' = [handler |-> "core", user_input |-> user_input,
                         result |-> done.result]
             /\ UNCHANGED <<analytics, openai_chatbot>>

Next == process_message \/ core_process_message

Spec == Init /\ [][Next]_vars

\* ------------------------------------------------------------------------
\* A long session of one orchestrator: it repeats its request and may change
\* it (text, use_openai, what the remote call does) only every
\* BurstLength-th call.

SteadyTexts == {TextHello, TextXyz}

process_message_steady ==
  /\ clock < MaxSteadyRequests
  /\ \E user_input \in SteadyTexts, user_id \in UserIds, use_openai \in BOOLEAN :
       \E api \in (IF use_openai /\ openai_chatbot.client
                     THEN ApiOutcomes ELSE {[ok |-> FALSE, content |-> << >>]}) :
         /\ IF clock % BurstLength = 0
              THEN TRUE
              ELSE /\ user_input = last.user_input
                   /\ use_openai = last.use_openai
                   /\ api = last.api
         /\ \E response_time \in ResponseTimes :
              Resolve(user_input, user_id, use_openai, api, 1, response_time)

NextHistory == process_message_steady

SpecHistory == Init /\ [][NextHistory]_vars

\* ------------------------------------------------------------------------
\* The two local strategies applied to texts made of one or two phrases.

PhraseHello == <<"H","e","l","l","o">>
PhraseThere == <<"t","h","e","r","e">>
PhraseWhereIsMyOrder == <<"w","h","e","r","e"," ","i","s"," ","m","y"," ","o","r","d","e","r">>
PhraseDeliveryStatus == <<"d","e","l","i","v","e","r","y"," ","s","t","a","t","u","s">>
PhraseTracking == <<"t","r","a","c","k","i","n","g">>
PhraseRefund == <<"r","e","f","u","n","d">>
PhraseBye == <<"b","y","e">>
PhraseThanks == <<"t","h","a","n","k","s">>
PhraseXyz == <<"x","y","z">>
PhraseHowLong == <<"h","o","w"," ","l","o","n","g">>
PhrasePassword == <<"p","a","s","s","w","o","r","d">>

Phrases ==
  {TextEmpty, PhraseHello, PhraseThere, PhraseWhereIsMyOrder, PhraseDeliveryStatus,
   PhraseTracking, PhraseRefund, PhraseBye, PhraseThanks, PhraseXyz, PhraseHowLong,
   PhrasePassword}

\* Two phrases separated by a space.
Join(a, b) == a \o <<" ">> \o b

StrategyTexts == Phrases \cup {Join(a, b) : a, b \in Phrases}

\* CustomerSupportChatbot._find_best_intent(user_input), applied once.
classify ==
  /\ last.handler = "none"
  /\ \E user_input \in StrategyTexts :
       \E found \in {_find_best_intent(user_input)} :
         last' = [handler |-> "classify", user_input |-> user_input, result |-> found]
  /\ UNCHANGED <<analytics, openai_chatbot, core_chatbot, clock>>

\* _process_with_enhanced_dataset up to line 117: the matcher applied to the
\* lower-cased text, applied once.
match ==
  /\ last.handler = "none"
  /\ \E user_input \in StrategyTexts :
       \E best_match \in {_find_best_intent_match(lower(user_input))} :
         last' = [handler |-> "match", user_input |-> user_input, result |-> best_match]
  /\ UNCHANGED <<analytics, openai_chatbot, core_chatbot, clock>>

NextStrategies == classify \/ match

SpecStrategies == Init /\ [][NextStrategies]_vars

\* ------------------------------------------------------------------------
\* The baseline chatbot with its three operations: requests, snapshots of
\* the analytics and resets.

MaxBaselineRequests == 2

BaselineTexts == {TextSpace, TextHello, TextXyz, TextOrder}

\* sum(response_times)
RECURSIVE SeqSum(_)
SeqSum(list) == IF list = << >> THEN 0 ELSE Head(list) + SeqSum(Tail(list))

\* clear_history keeping the latency samples.
ClearHistoryKeepingTimes(bot) ==
  [conversation_history |-> << >>,
   analytics |-> [total_requests       |-> 0,
                  successful_responses |-> 0,
                  failed_responses     |-> 0,
                  intent_counts        |-> EmptyDict,
                  response_times       |-> bot.analytics.response_times]]

\* CustomerSupportChatbot.clear_history: the chatbot afterwards.
ClearHistory(bot) ==
  [conversation_history |-> << >>,
   analytics |-> [total_requests       |-> 0,
                  successful_responses |-> 0,
                  failed_responses     |-> 0,
                  intent_counts        |-> EmptyDict,
                  response_times       |-> << >>]]

\* round(numerator / denominator * scale): the number a format of fixed
\* precision prints (f"{x:.1f}" with numerator * 10, f"{x:.2f}" with
\* numerator * 100), for a positive denominator.
Rounded(numerator, denominator) ==
  (2 * numerator + denominator) \div (2 * denominator)

\* get_analytics without the test of line 242: it divides whatever
\* total_requests is.
CoreGetAnalyticsUnguarded(bot) ==
  [total_requests            |-> bot.analytics.total_requests,
   successful_responses      |-> bot.analytics.successful_responses,
   failed_responses          |-> bot.analytics.failed_responses,
   raised                    |-> Len(bot.analytics.response_times) = 0
                                   \/ bot.analytics.total_requests = 0,
   success_rate              |-> 0,
   average_response_time     |-> 0,
   intent_distribution       |-> bot.analytics.intent_counts,
   recent_conversations      |-> LastN(bot.conversation_history, 10),
   shares_intent_counts      |-> TRUE,
   taken_intent_distribution |-> bot.analytics.intent_counts]

\* CustomerSupportChatbot.get_analytics: the returned dict.  success_rate
\* is the number printed by f"{success_rate:.1f}%", in tenths of a percent,
\* and average_response_time the number printed by f"{avg:.2f}s", in
\* hundredths of a second.  raised says that line 243 divided by zero
\* (ZeroDivisionError) and no dict was returned.  intent_distribution is
\* the chatbot's intent_counts dict itself, not a copy: shares_intent_counts
\* says that the two are one object, and taken_intent_distribution keeps
\* what it held when the snapshot was taken.
CoreGetAnalytics(bot) ==
  LET divides == bot.analytics.total_requests > 0
      raises  == divides /\ Len(bot.analytics.response_times) = 0
  IN  [total_requests            |-> bot.analytics.total_requests,
       successful_responses      |-> bot.analytics.successful_responses,
       failed_responses          |-> bot.analytics.failed_responses,
       raised                    |-> raises,
       success_rate              |-> IF divides /\ ~raises
                                       THEN Rounded(bot.analytics.successful_responses * 1000,
                                                    bot.analytics.total_requests)
                                       ELSE 0,
       average_response_time     |-> IF divides /\ ~raises
                                       THEN Rounded(SeqSum(bot.analytics.response_times) * 100,
                                                    Len(bot.analytics.response_times))
                                       ELSE 0,
       intent_distribution       |-> bot.analytics.intent_counts,
       recent_conversations      |-> LastN(bot.conversation_history, 10),
       shares_intent_counts      |-> TRUE,
       taken_intent_distribution |-> bot.analytics.intent_counts]

\* A float quotient that is not rounded: numerator / denominator.
Fraction(numerator, denominator) == [num |-> numerator, den |-> denominator]

\* EnhancedChatbotWithDataset.get_analytics: the returned dict.  Both
\* divisions are guarded (lines 192-193), so it never raises.
EnhancedGetAnalytics(self) ==
  [total_requests          |-> self.total_requests,
   openai_requests         |-> self.openai_requests,
   core_requests           |-> self.core_requests,
   openai_usage_percentage |-> IF self.total_requests > 0
                                 THEN Fraction(self.openai_requests * 100, self.total_requests)
                                 ELSE Fraction(0, 1),
   average_response_time   |-> IF Len(self.response_times) > 0
                                 THEN Fraction(SeqSum(self.response_times),
                                               Len(self.response_times))
                                 ELSE Fraction(0, 1),
   intent_distribution     |-> self.intent_distribution,
   conversation_count      |-> Len(self.conversation_history),
   dataset_examples        |-> Len(training_data),
   enhanced_responses      |-> Len(enhanced_responses),
   raised                  |-> FALSE]

\* A caller holds a snapshot (last.snapshot).
HasSnapshot == "snapshot" \in DOMAIN last

\* The held snapshot after the chatbot recorded a request: a write to
\* intent_counts (line 225) is a write to the dict the snapshot shares.
SnapshotAfterRecord(snapshot, bot) ==
  IF snapshot.shares_intent_counts
    THEN [snapshot EXCEPT !.intent_distribution = bot.analytics.intent_counts]
    ELSE snapshot

\* The held snapshot after clear_history: self.analytics is a new dict with
\* a new intent_counts, and the snapshot keeps the old one.
SnapshotAfterClear(snapshot) == [snapshot EXCEPT !.shares_intent_counts = FALSE]

\* CustomerSupportChatbot.process_message
baseline_process_message ==
  /\ clock < MaxBaselineRequests
  /\ \E user_input \in BaselineTexts, session_id \in SessionIds, response_time \in ResponseTimes :
       \E choice \in (IF strip(user_input) = << >> THEN {1}
                      ELSE 1..Len(ResponsePool(BestIntent(user_input)[1]))) :
         \E done \in {CoreProcessMessage(core_chatbot, user_input, session_id, choice,
                                         response_time, clock + 1)} :
             /\ core_chatbot' = done.bot
             /\ clock' = clock + 1
             /\ last' = IF HasSnapshot
                          THEN [handler |-> "core", user_input |-> user_input,
                                result |-> done.result,
                                snapshot |-> SnapshotAfterRecord(last.snapshot, done.bot)]
                          ELSE [handler |-> "core", user_input |-> user_input,
                                result |-> done.result]
             /\ UNCHANGED <<analytics, openai_chatbot>>

\* CustomerSupportChatbot.get_analytics
get_analytics ==
  /\ last' = [handler |-> "get_analytics", snapshot |-> CoreGetAnalytics(core_chatbot)]
  /\ UNCHANGED <<analytics, openai_chatbot, core_chatbot, clock>>

\* CustomerSupportChatbot.clear_history
clear_history ==
  /\ core_chatbot' = ClearHistory(core_chatbot)
  /\ last' = IF HasSnapshot
               THEN [handler |-> "clear_history",
                     snapshot |-> SnapshotAfterClear(last.snapshot)]
               ELSE [handler |-> "clear_history"]
  /\ UNCHANGED <<analytics, openai_chatbot, clock>>

NextBaseline == baseline_process_message \/ get_analytics \/ clear_history

SpecBaseline == Init /\ [][NextBaseline]_vars

\* ------------------------------------------------------------------------
\* Concurrent sessions on one shared orchestrator (streamlit_app.py caches
\* one EnhancedChatbotWithDataset for all sessions).  Each session makes one
\* request with use_openai=False.  process_message takes no lock, and
\* d[k] += 1 is a read of d[k] followed by a write of it, so the steps of
\* the sessions interleave statement by statement.

MaxSessions == 2

Sessions == 1..MaxSessions

\* Where each session is in process_message: its position, its text and the
\* counter value it has read.
Calls ==
  IF "calls" \in DOMAIN last
    THEN last.calls
    ELSE [t \in Sessions |-> [pc |-> "start", user_input |-> TextEmpty, loaded |-> 0]]

\* Session t moves on.
SetCall(t, call) ==
  last' = [handler |-> "concurrent", calls |-> [Calls EXCEPT ![t] = call]]

\* Line 65, the read of self.analytics['total_requests'].
load_total_requests ==
  \E t \in Sessions, user_input \in SteadyTexts :
    /\ Calls[t].pc = "start"
    /\ SetCall(t, [pc |-> "store_total", user_input |-> user_input,
                   loaded |-> analytics.total_requests])
    /\ UNCHANGED <<analytics, openai_chatbot, core_chatbot, clock>>

\* Line 65, the write of self.analytics['total_requests'].
store_total_requests ==
  \E t \in Sessions :
    /\ Calls[t].pc = "store_total"
    /\ analytics' = [analytics EXCEPT !.total_requests = Calls[t].loaded + 1]
    /\ SetCall(t, [Calls[t] EXCEPT !.pc = "load_core"])
    /\ UNCHANGED <<openai_chatbot, core_chatbot, clock>>

\* Lines 93-94: the local resolution, then the read of
\* self.analytics['core_requests'].
load_core_requests ==
  \E t \in Sessions :
    /\ Calls[t].pc = "load_core"
    /\ SetCall(t, [Calls[t] EXCEPT !.pc = "store_core",
                                   !.loaded = analytics.core_requests])
    /\ UNCHANGED <<analytics, openai_chatbot, core_chatbot, clock>>

\* Line 94, the write of self.analytics['core_requests'].
store_core_requests ==
  \E t \in Sessions :
    /\ Calls[t].pc = "store_core"
    /\ analytics' = [analytics EXCEPT !.core_requests = Calls[t].loaded + 1]
    /\ SetCall(t, [Calls[t] EXCEPT !.pc = "append_history"])
    /\ UNCHANGED <<openai_chatbot, core_chatbot, clock>>

\* Lines 97 and 170-177: list.append of the conversation record.
append_history ==
  \E t \in Sessions :
    /\ Calls[t].pc = "append_history"
    /\ \E best_match \in {BestMatch(lower(Calls[t].user_input))} :
         analytics' = [analytics EXCEPT !.conversation_history =
                         Append(@, [timestamp    |-> clock + 1,
                                    user_id      |-> None,
                                    user_input   |-> Calls[t].user_input,
                                    bot_response |-> best_match[3],
                                    source       |-> "core",
                                    confidence   |-> best_match[2]])]
    /\ clock' = clock + 1
    /\ SetCall(t, [Calls[t] EXCEPT !.pc = "trim_history"])
    /\ UNCHANGED <<openai_chatbot, core_chatbot>>

\* Lines 180-181: keep only the last 100 conversations.
trim_history ==
  \E t \in Sessions :
    /\ Calls[t].pc = "trim_history"
    /\ analytics' = IF Len(analytics.conversation_history) > HistoryLimit
                      THEN [analytics EXCEPT !.conversation_history =
                                               LastN(@, HistoryLimit)]
                      ELSE analytics
    /\ SetCall(t, [Calls[t] EXCEPT !.pc = "append_response_time"])
    /\ UNCHANGED <<openai_chatbot, core_chatbot, clock>>

\* Lines 99-110: list.append of the latency sample, and the return.
append_response_time ==
  \E t \in Sessions, response_time \in ResponseTimes :
    /\ Calls[t].pc = "append_response_time"
    /\ analytics' = [analytics EXCEPT !.response_times = Append(@, response_time)]
    /\ SetCall(t, [Calls[t] EXCEPT !.pc = "done"])
    /\ UNCHANGED <<openai_chatbot, core_chatbot, clock>>

NextConcurrent ==
  \/ load_total_requests
  \/ store_total_requests
  \/ load_core_requests
  \/ store_core_requests
  \/ append_history
  \/ trim_history
  \/ append_response_time

SpecConcurrent == Init /\ [][NextConcurrent]_vars

\* ------------------------------------------------------------------------
\* Both chatbots given arguments of either type, with their snapshots and
\* the reset: requests that end in an exception.

MaxFailureRequests == 2

AnyInputs == {TextSpace, TextHello, TextXyz, BytesHello}

\* Measured latencies, in seconds.
LatencySamples == {1, 2}

\* EnhancedChatbotWithDataset.process_message
any_process_message ==
  /\ clock < MaxFailureRequests
  /\ \E user_input \in AnyInputs, use_openai \in BOOLEAN :
       \E api \in (IF use_openai /\ openai_chatbot.client
                     THEN ApiOutcomes ELSE {[ok |-> FALSE, content |-> << >>]}) :
         \E choice \in Choices(user_input, use_openai, api), response_time \in LatencySamples :
           Resolve(user_input, None, use_openai, api, choice, response_time)

\* CustomerSupportChatbot.process_message
any_core_process_message ==
  /\ clock < MaxFailureRequests
  /\ \E user_input \in AnyInputs, response_time \in LatencySamples :
       \E choice \in (IF strip(user_input) = << >> \/ ClassifierRaises(user_input)
                        THEN {1}
                        ELSE 1..Len(ResponsePool(BestIntent(user_input)[1]))) :
         \E done \in {CoreProcessMessage(core_chatbot, user_input, None, choice,
                                         response_time, clock + 1)} :
             /\ core_chatbot' = done.bot
             /\ clock' = clock + 1
             /\ last' = [handler |-> "core", user_input |-> user_input,
                         result |-> done.result]
             /\ UNCHANGED <<analytics, openai_chatbot>>

\* EnhancedChatbotWithDataset.get_analytics
enhanced_get_analytics ==
  /\ last' = [handler |-> "enhanced_get_analytics",
              snapshot |-> EnhancedGetAnalytics(analytics)]
  /\ UNCHANGED <<analytics, openai_chatbot, core_chatbot, clock>>

NextFailure ==
  \/ any_process_message
  \/ any_core_process_message
  \/ get_analytics
  \/ enhanced_get_analytics
  \/ clear_history

SpecFailure == Init /\ [][NextFailure]_vars

\* ------------------------------------------------------------------------
\* A long session of the baseline chatbot, with snapshots and resets: the
\* user repeats the recorded text and may change it only every
\* SessionBurst-th call or when the history is empty.

MaxSessionRequests == 12
SessionBurst == 4

SessionInputs == {TextHello, TextXyz, BytesHello}

\* CustomerSupportChatbot.process_message
session_process_message ==
  /\ clock < MaxSessionRequests
  /\ \E user_input \in SessionInputs :
       /\ IF clock % SessionBurst = 0 \/ core_chatbot.conversation_history = << >>
            THEN TRUE
            ELSE user_input =
                   core_chatbot.conversation_history[
                     Len(core_chatbot.conversation_history)].user_input
       /\ \E done \in {CoreProcessMessage(core_chatbot, user_input, None, 1, 1, clock + 1)} :
            /\ core_chatbot' = done.bot
            /\ clock' = clock + 1
            /\ last' = [handler |-> "core", user_input |-> user_input,
                        result |-> done.result]
            /\ UNCHANGED <<analytics, openai_chatbot>>

NextSession == session_process_message \/ get_analytics \/ clear_history

SpecSession == Init /\ [][NextSession]_vars

\* ------------------------------------------------------------------------
\* The generative adapter called directly, as its own main() calls it, with
\* or without a client.

MaxAdapterCalls == 8

AdapterMessages == {TextHello}

\* OpenAIChatbot.get_openai_response
openai_get_response ==
  /\ clock < MaxAdapterCalls
  /\ \E user_message \in AdapterMessages :
       \E ok \in (IF openai_chatbot.client THEN BOOLEAN ELSE {FALSE}),
          content \in GeneratedContents :
         \E api \in {IF ok THEN [ok |-> TRUE, content |-> content]
                             ELSE [ok |-> FALSE, content |-> << >>]},
            choice \in (IF ok THEN {1} ELSE 1..Len(openai_fallback_responses)) :
           \E done \in {get_openai_response(openai_chatbot, user_message, api, choice,
                                            clock + 1)} :
             /\ openai_chatbot' = done.oa
             /\ clock' = clock + 1
             /\ last' = [handler |-> "openai", user_message |-> user_message,
                         api |-> api, sent |-> done.messages,
                         response |-> done.response]
             /\ UNCHANGED <<analytics, core_chatbot>>

\* OpenAIChatbot.clear_history
openai_clear_history ==
  /\ openai_chatbot' = [openai_chatbot EXCEPT !.conversation_history = << >>]
  /\ last' = [handler |-> "openai_clear_history"]
  /\ UNCHANGED <<analytics, core_chatbot, clock>>

NextAdapter == openai_get_response \/ openai_clear_history

SpecAdapter == Init /\ [][NextAdapter]_vars

\* ------------------------------------------------------------------------
\* The orchestrator asked the corpus's own questions with the generative
\* adapter disabled, as test_enhanced_responses asks its test cases.

MaxCorpusRequests == 1

\* self.process_message(test_input, use_openai=False)
corpus_process_message ==
  /\ clock < MaxCorpusRequests
  /\ \E user_input \in CorpusTexts, response_time \in LatencySamples :
       Resolve(user_input, None, FALSE, [ok |-> FALSE, content |-> << >>], 1, response_time)

NextCorpus == corpus_process_message

SpecCorpus == Init /\ [][NextCorpus]_vars

\* ------------------------------------------------------------------------
\* One request of the orchestrator in two steps when it calls the remote
\* completion service: the call is sent (line 55) and later returns, raises
\* or never answers.  No timeout is passed to openai.OpenAI (line 28) or to
\* chat.completions.create (lines 55-63), so nothing in the program ends a
\* call that is not answered.

MaxBlockingRequests == 2

BlockingTexts == {TextHello, TextXyz}

\* No call of process_message is in progress.
Idle == last.handler \in {"none", "enhanced"}

\* process_message up to the completion request being sent: the request
\* is counted (line 65) and get_openai_response has built its messages.
send_completion_request ==
  /\ Idle
  /\ clock < MaxBlockingRequests
  /\ openai_chatbot.client
  /\ \E user_input \in BlockingTexts :
       /\ analytics' = [analytics EXCEPT !.total_requests = @ + 1]
       /\ last' = [handler |-> "calling", user_input |-> user_input,
                   use_openai |-> TRUE,
                   sent |-> Messages(openai_chatbot, user_input, << >>)]
  /\ UNCHANGED <<openai_chatbot, core_chatbot, clock>>

\* The rest of process_message once the completion call ended with `api`.
AfterCompletion(api, choice, response_time) ==
  \E gen \in {get_openai_response(openai_chatbot, last.user_input, api, choice, clock + 1)} :
    /\ analytics' = RecordOpenAI(analytics, last.user_input, gen.response, None,
                                 response_time, clock + 1)
    /\ openai_chatbot' = gen.oa
    /\ clock' = clock + 1
    /\ last' = [handler |-> "enhanced", user_input |-> last.user_input,
                use_openai |-> TRUE, api_called |-> TRUE, api |-> api,
                matched |-> FALSE, classified |-> FALSE, raised |-> FALSE,
                result |-> [text |-> gen.response.text, intent |-> gen.response.intent,
                            confidence |-> gen.response.confidence,
                            response_time |-> response_time,
                            source |-> "openai", model |-> gen.response.model]]
    /\ UNCHANGED core_chatbot

\* The completion call returns an answer.
completion_returns ==
  /\ last.handler = "calling"
  /\ \E content \in GeneratedContents, response_time \in ResponseTimes :
       AfterCompletion([ok |-> TRUE, content |-> content], 1, response_time)

\* The completion call raises (refused, unreachable, malformed answer).
completion_raises ==
  /\ last.handler = "calling"
  /\ \E choice \in 1..Len(openai_fallback_responses), response_time \in ResponseTimes :
       AfterCompletion([ok |-> FALSE, content |-> << >>], choice, response_time)

\* The service accepts the request and never answers: the thread stays in
\* chat.completions.create.
completion_never_returns ==
  /\ last.handler = "calling"
  /\ last' = [handler |-> "blocked", user_input |-> last.user_input,
              use_openai |-> TRUE, sent |-> last.sent]
  /\ UNCHANGED <<analytics, openai_chatbot, core_chatbot, clock>>

\* process_message served locally (use_openai false or no client): no
\* remote call, one step.
resolve_locally ==
  /\ Idle
  /\ clock < MaxBlockingRequests
  /\ \E user_input \in BlockingTexts, use_openai \in BOOLEAN :
       /\ ~UsesOpenAI([openai_chatbot |-> openai_chatbot], use_openai)
       /\ \E choice \in Choices(user_input, use_openai, [ok |-> FALSE, content |-> << >>]),
             response_time \in ResponseTimes :
            Resolve(user_input, None, use_openai, [ok |-> FALSE, content |-> << >>],
                    choice, response_time)

NextBlocking ==
  \/ send_completion_request
  \/ completion_returns
  \/ completion_raises
  \/ completion_never_returns
  \/ resolve_locally

\* The interpreter runs every step of the program that can run, and the
\* service does one of the three things with a request it was sent.
SpecBlocking == Init /\ [][NextBlocking]_vars /\ WF_vars(NextBlocking)

\* ------------------------------------------------------------------------
\* The claims.

\* The text is empty or whitespace-only (not user_input.strip()).
Blank(text) == strip(text) = << >>

\* The last call was one of EnhancedChatbotWithDataset.process_message.
EnhancedCall == last.handler = "enhanced"

\* This step is a call of EnhancedChatbotWithDataset.process_message.
EnhancedStep == clock' = clock + 1 /\ last'.handler = "enhanced"

\* The elements of a list.
Range(list) == {list[i] : i \in 1..Len(list)}

PromptForInput == "Please enter a message so I can help you!"

\* <<intent, confidence, text>> of a returned dict.
Triple(result) == <<result.intent, result.confidence, result.text>>

\* The result is one the keyword classifier gives for the text: its intent,
\* its confidence and a response of that intent's pool (the fallback pool
\* for "fallback").
ClassifierResult(user_input, result) ==
  /\ result.intent = BestIntent(user_input)[1]
  /\ result.confidence = BestIntent(user_input)[2]
  /\ result.text \in Range(ResponsePool(BestIntent(user_input)[1]))

\* The result is the one the fallback chain's local stages give for the
\* text: the matcher's on a positive score, else the keyword classifier's.
LocalChainResult(user_input, result) ==
  IF BestMatch(lower(user_input))[2] > 0
    THEN Triple(result) = BestMatch(lower(user_input))
    ELSE ClassifierResult(user_input, result)

\* C1: a call of the orchestrator with an empty or whitespace-only text
\* returns the prompt for input with confidence 0.0 and source
\* generic-fallback, and changes neither a counter nor the history.
C1_BlankInputPromptedAndNotRecorded ==
  [][ (EnhancedStep /\ Blank(last'.user_input)) =>
        /\ last'.result.confidence = 0
        /\ last'.result.source = "generic-fallback"
        /\ last'.result.text = PromptForInput
        /\ analytics' = analytics ]_vars

\* C2: when the matcher has no positive-scoring candidate for a non-empty
\* text, the call consults the keyword classifier and returns its intent
\* and confidence with a response of that intent's pool, tagged keyword.
C2_NoMatchFallsToKeywordClassifier ==
  (/\ EnhancedCall
   /\ ~Blank(last.user_input)
   /\ last.matched
   /\ BestMatch(lower(last.user_input))[2] = 0)
    => /\ last.classified
       /\ ClassifierResult(last.user_input, last.result)
       /\ last.result.source = "keyword"

\* C3: when the adapter is configured and preferred but the remote call
\* fails, the call returns the local stages' result for the text and not
\* one the adapter made.
C3_FailedGenerativeFallsThrough ==
  (EnhancedCall /\ last.api_called /\ ~last.api.ok)
    => /\ last.result.source # "openai"
       /\ last.matched
       /\ LocalChainResult(last.user_input, last.result)

\* C4: as long as every remote call has failed (the adapter has stored no
\* exchange), the generative request counter is 0 and no conversation
\* record carries the generative source tag.
C4_NoGenerativeCountWhenEveryCallFails ==
  (openai_chatbot.client /\ openai_chatbot.conversation_history = << >>)
    => /\ analytics.openai_requests = 0
       /\ \A i \in 1..Len(analytics.conversation_history) :
            analytics.conversation_history[i].source # "openai"

C6_GenerativeSuccessRecorded ==
  [][ (EnhancedStep /\ last'.api_called /\ last'.api.ok) =>
        /\ last'.result.text = strip(last'.api.content)
        /\ last'.result.confidence = ConfOpenAI
        /\ last'.result.source = "openai"
        /\ analytics'.total_requests = analytics.total_requests + 1
        /\ analytics'.openai_requests = analytics.openai_requests + 1
        /\ analytics'.core_requests = analytics.core_requests
        /\ analytics'.response_times =
             Append(analytics.response_times, last'.result.response_time)
        /\ Len(analytics'.conversation_history) =
             Min(Len(analytics.conversation_history) + 1, HistoryLimit)
        /\ LET record == analytics'.conversation_history[Len(analytics'.conversation_history)]
           IN  /\ record.source = "openai"
               /\ record.user_input = last'.user_input
               /\ record.bot_response = last'.result.text
               /\ record.confidence = ConfOpenAI
        /\ ~last'.matched
        /\ ~last'.classified
        /\ core_chatbot' = core_chatbot ]_vars

C6_Witness ==
  /\ EnhancedCall
  /\ last.api_called
  /\ last.api.ok
  /\ last.result.source = "openai"
  /\ analytics.openai_requests = 2

C8_HistoryIsLastHundred ==
  LET history == analytics.conversation_history
      n == analytics.total_requests
  IN  /\ Len(history) <= HistoryLimit
      /\ Len(history) = Min(n, HistoryLimit)
      /\ \A i \in 1..Len(history) : history[i].timestamp = n - Len(history) + i

C8_Witness ==
  /\ analytics.total_requests = HistoryLimit + 2
  /\ Len(analytics.conversation_history) = HistoryLimit
  /\ analytics.conversation_history[1].timestamp = 3
  /\ analytics.conversation_history[1].user_input # last.user_input

\* C9: for a non-empty text, the confidence either chatbot returns lies in
\* [0.0, 1.0].
C9_ConfidenceInUnitInterval ==
  (last.handler \in {"enhanced", "core"} /\ ~Blank(last.user_input))
    => (0 <= last.result.confidence /\ last.result.confidence <= ConfOne)

C9_Witness ==
  /\ EnhancedCall
  /\ last.user_input = TextTrack
  /\ last.result.confidence = ConfKeywordCap
  /\ Len(core_chatbot.conversation_history) = 1
  /\ core_chatbot.conversation_history[1].user_input = TextTrack
  /\ core_chatbot.conversation_history[1].confidence = ConfOne

\* C10: the orchestrator's confidence is 0.0 exactly when the source is
\* generic-fallback or the text was empty or whitespace-only.
C10_ZeroConfidenceIffFallbackOrBlank ==
  EnhancedCall =>
    ((last.result.confidence = 0)
       <=> (last.result.source = "generic-fallback" \/ Blank(last.user_input)))

\* The source tags a result may carry.
SourceTags == {"openai", "core_enhanced", "keyword", "generic-fallback"}

\* C11: every call of the orchestrator returns a well-formed result: a
\* non-empty response text, an intent that is a string name (not None) and
\* a source tag of the enumeration.
C11_ResultWellFormed ==
  EnhancedCall =>
    /\ last.result.intent # None
    /\ last.result.source \in SourceTags
    /\ IF last.api_called /\ last.api.ok
         THEN last.result.text # << >>
         ELSE last.result.text # ""

\* The sum of the counts of a dict of counts.
RECURSIVE DictSum(_)
DictSum(d) ==
  IF DOMAIN d = {} THEN 0
  ELSE LET k == CHOOSE x \in DOMAIN d : TRUE
       IN  d[k] + DictSum([x \in DOMAIN d \ {k} |-> d[x]])

\* C17: the per-intent counts of the orchestrator's analytics sum to the
\* number of requests it has recorded.
C17_IntentCountsSumToRequests ==
  DictSum(analytics.intent_distribution) = analytics.total_requests

\* This step is a call of CustomerSupportChatbot.process_message.
CoreStep == clock' = clock + 1 /\ last'.handler = "core"

\* C20: a call of the baseline chatbot with an empty or whitespace-only
\* text returns the prompt for input with confidence 0.0 and leaves its
\* counters, intent counts, response times and history unchanged.
C20_BaselineBlankInputPrompted ==
  [][ (CoreStep /\ Blank(last'.user_input)) =>
        /\ last'.result.text = PromptForInput
        /\ last'.result.confidence = 0
        /\ core_chatbot'.analytics = core_chatbot.analytics
        /\ core_chatbot'.conversation_history = core_chatbot.conversation_history ]_vars

C20_Witness ==
  /\ last.handler = "core"
  /\ last.user_input = TextSpaces
  /\ last.result.intent = "empty_input"
  /\ clock = 2
  /\ core_chatbot.analytics.total_requests = 1

\* The number of keyword phrases of the catalog's k-th intent that occur in
\* the lower-cased text.
HitCount(k, user_input) ==
  Cardinality({j \in 1..Len(intents[k].keywords) :
                 IsSubstring(intents[k].keywords[j], lower(user_input))})

\* The largest hit count of an intent of the catalog.
MaxHits(user_input) ==
  CHOOSE m \in {HitCount(k, user_input) : k \in 1..Len(intents)} :
    \A k \in 1..Len(intents) : HitCount(k, user_input) <= m

\* C13: with m the largest number of an intent's keyword phrases occurring
\* in the lower-cased text, the classifier returns confidence min(m/3, 1)
\* and an intent attaining m when m > 0, and ("fallback", 0.0) when m = 0;
\* the intent is "fallback" exactly when the confidence is 0.0.
C13_ClassifierConfidence ==
  last.handler = "classify" =>
    \A m \in {MaxHits(last.user_input)} :
      /\ last.result[2] = Min(m * ConfCoreStep, ConfOne)
      /\ m = 1 => last.result[2] = 20
      /\ m >= 3 => last.result[2] = 60
      /\ m > 0 => \E k \in 1..Len(intents) :
                     /\ intents[k].name = last.result[1]
                     /\ HitCount(k, last.user_input) = m
      /\ m = 0 => last.result = <<"fallback", 0>>
      /\ (last.result[1] = "fallback") <=> (last.result[2] = 0)

C13_Witness ==
  /\ last.handler = "classify"
  /\ MaxHits(last.user_input) = 3
  /\ last.result = <<"order_status", ConfOne>>

\* The iteration order of the catalog.
CatalogOrder ==
  <<"greeting", "order_status", "shipping", "returns", "payment", "product_info",
    "contact", "account", "complaint", "goodbye">>

\* C14: when several intents share the highest hit count, the classifier
\* returns the one that comes first in the catalog's iteration order.
C14_ClassifierFirstWinsTies ==
  /\ [k \in 1..Len(intents) |-> intents[k].name] = CatalogOrder
  /\ (last.handler = "classify" /\ MaxHits(last.user_input) > 0) =>
       \A m \in {MaxHits(last.user_input)} :
         \E k \in 1..Len(CatalogOrder) :
           /\ last.result[1] = CatalogOrder[k]
           /\ HitCount(k, last.user_input) = m
           /\ \A j \in 1..(k - 1) : HitCount(j, last.user_input) < m

C14_Witness ==
  /\ last.handler = "classify"
  /\ last.user_input = Join(PhraseRefund, PhraseBye)
  /\ HitCount(4, last.user_input) = 1
  /\ HitCount(10, last.user_input) = 1
  /\ last.result[1] = "returns"

\* The corpus example i contains the text (the exact-substring tier).
DirectTier(i, text) == IsSubstring(text, lower(training_data[i].input))

\* A generated variation of the corpus example i contains the text.
VariationTier(i, text) ==
  \E variation \in Range(generate_variations(training_data[i].input,
                                              training_data[i].intent)) :
    IsSubstring(text, lower(variation))

\* The keyword-overlap score of the corpus example i: 0.2 for each keyword of
\* its intent's list occurring in the text, at most 0.7.
KeywordTier(i, text) ==
  Min(ConfKeywordCap,
      ConfKeywordStep *
        Cardinality({j \in 1..Len(MappingKeywords(training_data[i].intent)) :
                       IsSubstring(MappingKeywords(training_data[i].intent)[j], text)}))

\* The largest element of a non-empty set of numbers.
Largest(numbers) == CHOOSE m \in numbers : \A n \in numbers : n <= m

\* C15: the matcher's confidence is 0.9 if some example satisfies the
\* exact-substring tier; otherwise 0.8 if some example's variation contains
\* the text; otherwise the best keyword-overlap score, which is at most 0.7.
C15_MatcherTierOrdering ==
  last.handler = "match" =>
    \A text \in {lower(last.user_input)} :
      \A keyword_best \in {Largest({KeywordTier(i, text) : i \in 1..Len(training_data)})} :
        /\ keyword_best <= 42
        /\ last.result[2] =
             IF \E i \in 1..Len(training_data) : DirectTier(i, text) THEN 54
             ELSE IF \E i \in 1..Len(training_data) : VariationTier(i, text) THEN 48
             ELSE keyword_best

C15_Witness ==
  /\ last.handler = "match"
  /\ last.result[2] = ConfVariation
  /\ \A i \in 1..Len(training_data) : ~DirectTier(i, lower(last.user_input))
  /\ \E i \in 1..Len(training_data) : VariationTier(i, lower(last.user_input))
  /\ \E i \in 1..Len(training_data) : KeywordTier(i, lower(last.user_input)) > 0

\* The score of the corpus example i: the best of its three tiers.
CandidateScore(i, text) ==
  IF DirectTier(i, text) THEN ConfDirect
  ELSE IF VariationTier(i, text) THEN ConfVariation
  ELSE KeywordTier(i, text)

\* The position in the corpus of the first example of example i's intent.
FirstAppearance(i) ==
  CHOOSE f \in 1..i :
    /\ training_data[f].intent = training_data[i].intent
    /\ \A g \in 1..(f - 1) : training_data[g].intent # training_data[i].intent

\* Example i comes before example j in the matcher's iteration order:
\* intents in order of first appearance, examples in corpus order.
Precedes(i, j) ==
  \/ FirstAppearance(i) < FirstAppearance(j)
  \/ FirstAppearance(i) = FirstAppearance(j) /\ i < j

\* C16: among the examples attaining the maximum score for the text, the
\* matcher returns the intent and output of the first in iteration order;
\* when nothing scores it returns (None, 0.0, "").
C16_MatcherFirstWinsTies ==
  last.handler = "match" =>
    \A scored \in {{<<i, CandidateScore(i, lower(last.user_input))>> :
                       i \in 1..Len(training_data)}} :
      \A top \in {Largest({c[2] : c \in scored})} :
        IF top = 0
          THEN last.result = <<None, 0, "">>
          ELSE \E c \in scored :
                 /\ c[2] = top
                 /\ \A d \in scored : d[2] = top => (d[1] = c[1] \/ Precedes(c[1], d[1]))
                 /\ last.result = <<training_data[c[1]].intent, top,
                                    training_data[c[1]].output>>

C16_Witness ==
  /\ last.handler = "match"
  /\ ~Blank(last.user_input)
  /\ last.result[2] > 0
  /\ \E i, j \in 1..Len(training_data) :
       /\ Precedes(i, j)
       /\ CandidateScore(i, lower(last.user_input)) = last.result[2]
       /\ CandidateScore(j, lower(last.user_input)) = last.result[2]
       /\ training_data[i].intent # training_data[j].intent
       /\ training_data[i].intent = last.result[1]
       /\ training_data[i].output = last.result[3]

\* C18: after clear_history, whatever was recorded before, every counter is
\* 0, the per-intent map, the latency samples and the history are empty, the
\* chatbot equals a freshly constructed one, and a second clear_history
\* changes nothing.
C18_ResetReturnsZeroValue ==
  last.handler = "clear_history" =>
    /\ core_chatbot.analytics.total_requests = 0
    /\ core_chatbot.analytics.successful_responses = 0
    /\ core_chatbot.analytics.failed_responses = 0
    /\ DOMAIN core_chatbot.analytics.intent_counts = {}
    /\ core_chatbot.analytics.response_times = << >>
    /\ core_chatbot.conversation_history = << >>
    /\ core_chatbot = CoreInit
    /\ ClearHistory(core_chatbot) = core_chatbot

C18_Witness ==
  /\ last.handler = "clear_history"
  /\ clock = 2
  /\ core_chatbot = CoreInit

\* C19: a snapshot keeps reporting the counters, the per-intent distribution
\* and the recent records of the moment it was taken, whatever is recorded
\* or reset afterwards.
C19_SnapshotIsCopy ==
  HasSnapshot =>
    last.snapshot.intent_distribution = last.snapshot.taken_intent_distribution

\* C12: once the requests of all concurrent sessions have completed, the
\* total request count is their number k, the per-source counts sum to k,
\* and the history and the latency samples hold one entry per request.
C12_ConcurrentUpdatesNotLost ==
  (\A t \in Sessions : Calls[t].pc = "done") =>
    /\ analytics.total_requests = Cardinality(Sessions)
    /\ analytics.openai_requests + analytics.core_requests = Cardinality(Sessions)
    /\ Len(analytics.conversation_history) = Min(Cardinality(Sessions), HistoryLimit)
    /\ Len(analytics.response_times) = Cardinality(Sessions)

\* C21: an internal failure while a non-empty request is classified,
\* answered or recorded is recovered at the boundary of process_message, of
\* the baseline chatbot and of the orchestrator alike: the call raises
\* nothing and returns a response with confidence 0.0, and the baseline's
\* failure counter grows by exactly one.
C21_InternalFailureRecovered ==
  [][ /\ (CoreStep /\ ~Blank(last'.user_input) /\ ClassifierRaises(last'.user_input)) =>
           /\ last'.result.confidence = 0
           /\ last'.result.intent = "error"
           /\ core_chatbot'.analytics.failed_responses
                = core_chatbot.analytics.failed_responses + 1
      /\ (EnhancedStep /\ ~last'.api_called /\ MatcherRaises(last'.user_input)) =>
           /\ ~last'.raised
           /\ last'.result.confidence = 0 ]_vars

\* The absolute value of an integer.
Abs(n) == IF n < 0 THEN 0 - n ELSE n

\* C22: computing a snapshot never divides by zero.  While no request is
\* recorded the baseline reports success rate 0 and average response time 0;
\* otherwise its success rate is successful_responses / total_requests * 100
\* and its average the mean of the latency samples (each to the printed
\* precision).  The orchestrator reports average 0 while it holds no latency
\* sample and the mean of the samples otherwise.
C22_SnapshotNeverDividesByZero ==
  /\ last.handler = "get_analytics" =>
       LET a == core_chatbot.analytics
           snapshot == last.snapshot
       IN  /\ ~snapshot.raised
           /\ a.total_requests = 0 =>
                /\ snapshot.success_rate = 0
                /\ snapshot.average_response_time = 0
           /\ a.total_requests > 0 =>
                /\ 2 * Abs(snapshot.success_rate * a.total_requests
                             - a.successful_responses * 1000) <= a.total_requests
                /\ Len(a.response_times) > 0
                /\ 2 * Abs(snapshot.average_response_time * Len(a.response_times)
                             - SeqSum(a.response_times) * 100) <= Len(a.response_times)
  /\ last.handler = "enhanced_get_analytics" =>
       LET snapshot == last.snapshot
       IN  /\ ~snapshot.raised
           /\ snapshot.average_response_time.den > 0
           /\ snapshot.openai_usage_percentage.den > 0
           /\ analytics.total_requests = 0 => snapshot.openai_usage_percentage.num = 0
           /\ Len(analytics.response_times) = 0 => snapshot.average_response_time.num = 0
           /\ Len(analytics.response_times) > 0 =>
                snapshot.average_response_time.num * Len(analytics.response_times)
                  = SeqSum(analytics.response_times) * snapshot.average_response_time.den

\* A baseline snapshot taken when its one request failed and nothing is
\* recorded, while the orchestrator has counted a request without a latency
\* sample.
C22_Witness ==
  /\ last.handler = "get_analytics"
  /\ core_chatbot.analytics.total_requests = 0
  /\ core_chatbot.analytics.failed_responses = 1
  /\ analytics.total_requests = 1
  /\ analytics.response_times = << >>
  /\ last.snapshot.success_rate = 0

\* C29: a request of the baseline chatbot that ends in the except branch
\* increments failed_responses and nothing else: total_requests,
\* successful_responses, the intent counts, the latency samples and the
\* history stay as they were, so the reported success rate is 100.0%
\* whenever total_requests > 0.
C29_FailurePathCountsOnlyFailure ==
  [][ (CoreStep /\ last'.result.intent = "error") =>
        /\ core_chatbot' = [core_chatbot EXCEPT !.analytics.failed_responses = @ + 1]
        /\ core_chatbot'.analytics.total_requests > 0 =>
             CoreGetAnalytics(core_chatbot').success_rate = 1000 ]_vars

\* A failed request after a recorded one.
C29_Witness ==
  /\ last.handler = "core"
  /\ last.result.intent = "error"
  /\ core_chatbot.analytics.total_requests = 1
  /\ core_chatbot.analytics.failed_responses = 1

\* C28: in every state of the baseline chatbot reached by requests,
\* snapshots and resets, total_requests, successful_responses, the number of
\* latency samples, the length of conversation_history and the sum of
\* intent_counts are equal; the stored history is never shortened by a
\* request, and only a snapshot's recent_conversations is limited to the
\* last 10 entries.
C28_BaselineCountsAgree ==
  LET a == core_chatbot.analytics
  IN  /\ a.total_requests = a.successful_responses
      /\ a.total_requests = Len(a.response_times)
      /\ a.total_requests = Len(core_chatbot.conversation_history)
      /\ a.total_requests = DictSum(a.intent_counts)
      /\ last.handler = "get_analytics" =>
           /\ last.snapshot.recent_conversations
                = LastN(core_chatbot.conversation_history, 10)
           /\ Len(last.snapshot.recent_conversations)
                = Min(Len(core_chatbot.conversation_history), 10)

\* A snapshot of a chatbot holding twelve exchanges of two intents.
C28_Witness ==
  /\ last.handler = "get_analytics"
  /\ Len(core_chatbot.conversation_history) = 12
  /\ Len(last.snapshot.recent_conversations) = 10
  /\ Cardinality(DOMAIN core_chatbot.analytics.intent_counts) = 2

\* This step is a call of OpenAIChatbot.get_openai_response.
AdapterStep == clock' = clock + 1 /\ last'.handler = "openai"

\* C26: a generative call sends as context at most the 6 most recent prior
\* exchanges of the adapter's history, oldest first: after n earlier
\* successful exchanges the request carries, behind the system prompt and
\* the current user message, the user and assistant messages of exactly
\* the last min(n, 6) exchanges, in the order in which they were stored.
C26_ContextIsLastSixExchanges ==
  [][ (AdapterStep /\ openai_chatbot.client) =>
        LET history == openai_chatbot.conversation_history
            n == Len(history)
            k == IF n < 6 THEN n ELSE 6
            sent == last'.sent
        IN  /\ Len(sent) = 2 + 2 * k
            /\ sent[1].role = "system"
            /\ sent[2].role = "user"
            /\ \A j \in 1..k :
                 /\ sent[2 * j + 1] = [role |-> "user", content |-> history[n - k + j].user]
                 /\ sent[2 * j + 2] = [role |-> "assistant",
                                       content |-> history[n - k + j].assistant] ]_vars

\* The eighth call after seven successful ones whose answers alternate:
\* the first exchange is left out and the six sent keep their order.
C26_Witness ==
  /\ last.handler = "openai"
  /\ Len(openai_chatbot.conversation_history) = 8
  /\ Len(last.sent) = 14
  /\ openai_chatbot.conversation_history[1].assistant = << >>
  /\ openai_chatbot.conversation_history[2].assistant = <<"O","K",".">>
  /\ last.sent[4].content = <<"O","K",".">>
  /\ last.sent[6].content = << >>

\* C30: the adapter's conversation history grows by exactly one exchange,
\* the user message with the stripped answer, on each successful generative
\* call, and is unchanged by a call that fails and by a call made without a
\* client; so the context of a later call holds no exchange of a failed
\* call.
C30_HistoryGrowsOnlyOnSuccess ==
  [][ AdapterStep =>
        LET history == openai_chatbot.conversation_history
            after == openai_chatbot'.conversation_history
        IN  IF openai_chatbot.client /\ last'.api.ok
              THEN /\ Len(after) = Len(history) + 1
                   /\ SubSeq(after, 1, Len(history)) = history
                   /\ after[Len(after)].user = last'.user_message
                   /\ after[Len(after)].assistant = strip(last'.api.content)
                   /\ last'.response.intent = "openai_response"
              ELSE /\ after = history
                   /\ last'.response.intent = "fallback" ]_vars

\* A failed call between two successful ones: two exchanges stored, and
\* the third call sent only the first.
C30_Witness ==
  /\ last.handler = "openai"
  /\ clock = 3
  /\ last.api.ok
  /\ Len(openai_chatbot.conversation_history) = 2
  /\ openai_chatbot.conversation_history[1].timestamp = 1
  /\ openai_chatbot.conversation_history[2].timestamp = 3
  /\ Len(last.sent) = 4

\* The intents that have a keyword list in DatasetIntegrator.intent_mapping.
MappingIntents == {intent_mapping[m].name : m \in 1..Len(intent_mapping)}

\* h: how many keyword phrases of the intent's list in intent_mapping occur
\* in the text (0 for an intent without a list).
MappingHits(intent, text) ==
  Cardinality(UNION {{<<m, j>> : j \in {n \in 1..Len(intent_mapping[m].keywords) :
                                         IsSubstring(intent_mapping[m].keywords[n], text)}} :
                       m \in {n \in 1..Len(intent_mapping) :
                                intent_mapping[n].name = intent}})

\* C23: the keyword-overlap candidate of an example has confidence
\* min(0.7, 0.2 * h), h counting the keyword phrases of the example's intent
\* in DatasetIntegrator.intent_mapping (not in the catalog of the keyword
\* classifier) that occur in the lower-cased input: a result below 0.8 is
\* the best of these candidates and names an intent with h > 0 in that list,
\* and an intent without a list yields no candidate.  Every intent of the
\* corpus, goodbye included, has a list.
C23_KeywordTierUsesMappingLists ==
  /\ \A i \in 1..Len(training_data) : training_data[i].intent \in MappingIntents
  /\ last.handler = "match" =>
       \A text \in {lower(last.user_input)} :
         \A best \in {Largest({Min(42, 12 * MappingHits(training_data[i].intent, text)) :
                                 i \in 1..Len(training_data)})} :
           /\ last.result[2] \in {54, 48} \/ last.result[2] = best
           /\ last.result[2] >= best
           /\ (last.result[2] > 0 /\ last.result[2] < 48) =>
                /\ last.result[1] \in MappingIntents
                /\ Min(42, 12 * MappingHits(last.result[1], text)) = best

\* The text " bye" matches no example and no variation; the keyword "bye"
\* of the goodbye list gives the candidate 0.2 that is returned.
C23_Witness ==
  /\ last.handler = "match"
  /\ last.user_input = Join(TextEmpty, PhraseBye)
  /\ last.result[1] = "goodbye"
  /\ last.result[2] = 12
  /\ MappingHits("goodbye", lower(last.user_input)) = 1

\* C23 as stated: goodbye has no keyword list, so no example of intent
\* goodbye ever gets a keyword-overlap candidate.
C23_GoodbyeYieldsNoKeywordCandidate ==
  last.handler = "match" =>
    /\ "goodbye" \notin MappingIntents
    /\ \A i \in 1..Len(training_data) :
         training_data[i].intent = "goodbye" =>
           KeywordTier(i, lower(last.user_input)) = 0

\* The text of the corpus example i occurs in the text without being it.
StrictlyContainsExample(i, text) ==
  /\ IsSubstring(lower(training_data[i].input), text)
  /\ lower(training_data[i].input) # text

\* C24: the matcher gives confidence 0.9 exactly when the lower-cased input
\* is a substring of some example's lower-cased input text; an input that
\* strictly contains an example's text and is contained in no example's
\* text gets less than 0.9.
C24_DirectTierInputInExample ==
  last.handler = "match" =>
    \A text \in {lower(last.user_input)} :
      /\ (last.result[2] = 54) <=>
           (\E i \in 1..Len(training_data) :
              IsSubstring(text, lower(training_data[i].input)))
      /\ ( /\ \E i \in 1..Len(training_data) : StrictlyContainsExample(i, text)
           /\ \A i \in 1..Len(training_data) :
                ~IsSubstring(text, lower(training_data[i].input)) )
           => last.result[2] < 54

\* "hello xyz" contains the example "Hello" and is contained in no example:
\* only the keyword tier answers.
C24_Witness ==
  /\ last.handler = "match"
  /\ last.user_input = Join(PhraseHello, PhraseXyz)
  /\ \E i \in 1..Len(training_data) : StrictlyContainsExample(i, lower(last.user_input))
  /\ \A i \in 1..Len(training_data) : ~DirectTier(i, lower(last.user_input))
  /\ last.result[2] > 0
  /\ last.result[2] < 54

\* C25: with the generative adapter disabled, resolving the input text of
\* any corpus example returns that example's intent with confidence 0.9
\* ("Hello" resolves to greeting); an example of another intent whose text
\* contains it comes later in the matcher's order and does not capture it.
C25_CorpusInputsResolveToOwnIntent ==
  (EnhancedCall /\ ~last.use_openai) =>
    \A i \in 1..Len(training_data) :
      last.user_input = training_data[i].input =>
        /\ last.result.intent = training_data[i].intent
        /\ last.result.confidence = 54
        /\ last.result.source = "core_enhanced"
        /\ \A j \in 1..Len(training_data) :
             ( /\ training_data[j].intent # training_data[i].intent
               /\ IsSubstring(lower(training_data[i].input), lower(training_data[j].input)) )
               => Precedes(i, j)

\* "Hi" resolved to greeting although later examples of other intents
\* ("This is terrible") contain it.
C25_Witness ==
  /\ EnhancedCall
  /\ ~last.use_openai
  /\ last.user_input = <<"H","i">>
  /\ last.user_input = training_data[2].input
  /\ last.result.intent = "greeting"
  /\ last.result.confidence = 54
  /\ \E j \in 1..Len(training_data) :
       /\ training_data[j].intent = "complaint"
       /\ IsSubstring(lower(last.user_input), lower(training_data[j].input))

\* C27: every request that begins eventually returns a result to its
\* caller: a completion call that was sent ends, by an answer, an error or
\* a timeout, and the request completes.
C27_EveryRequestReturns ==
  (last.handler = "calling") ~> (last.handler = "enhanced")

=============================================================================
